---- MODULE Spec2Model ----
(***************************************************************************)
(* A model of the Lagoon CLI wrapper: the command builders                 *)
(* (LagoonCommand, GitCommand), the executor (LagoonExecutor), the API     *)
(* operations of lagoon-api.mjs, the SSH key configurator and the          *)
(* interactive session of interactive.mjs.                                 *)
(*                                                                         *)
(* A JavaScript string is modelled as the sequence of its characters, each *)
(* a one-character string; null and undefined are the two sequences whose  *)
(* single element is not a character.  An Error object is a record with    *)
(* its message.                                                            *)
(***************************************************************************)
EXTENDS Integers, Sequences, FiniteSets, TLC

VARIABLES
    logger,       \* LagoonExecutor.logger: the collaborator given to the constructor
    pc,           \* the point the program has reached
    call,         \* the operation that awaits the child process, and where it resumes
    execFrame,    \* the locals of the running execute(): command and action
    running,      \* the child processes started and not yet completed
    spawnLog,     \* history: every process start of the current operation
    consoleOut,   \* history: the lines execute() printed during the current operation
    logCalls,     \* history: the calls made on the logger during the current operation
    exited,       \* history: the completions delivered by child processes
    ret,          \* the outcome of the last completed call: returned value or thrown error
    currentInstance,        \* startInteractiveMode: the selected instance, or null
    currentProject,         \* startInteractiveMode: the selected project, or null
    currentProjectDetails,  \* startInteractiveMode: the selected project's record, or null
    githubBaseUrl,          \* startInteractiveMode: the GitHub URL of the project, or null
    exit,                   \* startInteractiveMode: the loop's exit flag
    locals,       \* the locals of the running flow: its choices, selection and loop index
    reports,      \* history: what the flows reported (spinner.succeed/fail, console.error)
    sessionLog,   \* history: the calls the session and the configurator make on logger.mjs
    lagoonConfig, \* the configuration file ~/.lagoon.yml
    commands,     \* the command objects a caller holds while it builds them
    chain         \* history: the configurator calls made on the command objects

execVars == <<logger, execFrame, running, spawnLog, consoleOut, logCalls, exited>>

sessionVars == <<currentInstance, currentProject, currentProjectDetails, githubBaseUrl,
                 exit, locals, reports, sessionLog, lagoonConfig>>

cmdVars == <<commands, chain>>

vars == <<logger, pc, call, execFrame, running, spawnLog, consoleOut, logCalls, exited, ret,
          currentInstance, currentProject, currentProjectDetails, githubBaseUrl,
          exit, locals, reports, sessionLog, lagoonConfig, commands, chain>>

-----------------------------------------------------------------------------
(* String literals of the source.                                          *)

s_lagoon == <<"l","a","g","o","o","n">>
s_git == <<"g","i","t">>
s_dash_l == <<"-","l">>
s_dash_p == <<"-","p">>
s_dash_e == <<"-","e">>
s_output_json == <<"-","-","o","u","t","p","u","t","-","j","s","o","n">>
s_force == <<"-","-","f","o","r","c","e">>
s_config == <<"c","o","n","f","i","g">>
s_list == <<"l","i","s","t">>
s_projects == <<"p","r","o","j","e","c","t","s">>
s_environments == <<"e","n","v","i","r","o","n","m","e","n","t","s">>
s_all_users == <<"a","l","l","-","u","s","e","r","s">>
s_delete == <<"d","e","l","e","t","e">>
s_environment == <<"e","n","v","i","r","o","n","m","e","n","t">>
s_dd_environment == <<"-","-","e","n","v","i","r","o","n","m","e","n","t">>
s_deploy == <<"d","e","p","l","o","y">>
s_branch == <<"b","r","a","n","c","h">>
s_dd_branch == <<"-","-","b","r","a","n","c","h">>
s_login == <<"l","o","g","i","n">>
s_ssh == <<"s","s","h">>
s_dash_C == <<"-","C">>
s_ls_remote == <<"l","s","-","r","e","m","o","t","e">>
s_heads == <<"-","-","h","e","a","d","s">>
s_space == <<" ">>
s_drush_cr == <<"d","r","u","s","h"," ","c","r">>
s_drush_uli == <<"d","r","u","s","h"," ","u","s","e","r",":","u","n","b","l","o","c","k"," ","-","-","u","i","d","=","1"," ","&","&"," ","d","r","u","s","h"," ","u","l","i">>
s_Success == <<"S","u","c","c","e","s","s">>
s_Unknown_Action == <<"U","n","k","n","o","w","n"," ","A","c","t","i","o","n">>
s_Executing == <<"E","x","e","c","u","t","i","n","g",":"," ">>
s_production == <<"p","r","o","d","u","c","t","i","o","n">>
s_master == <<"m","a","s","t","e","r">>
s_develop == <<"d","e","v","e","l","o","p">>
s_project_slash == <<"p","r","o","j","e","c","t","/">>
s_success == <<"s","u","c","c","e","s","s">>
s_error == <<"e","r","r","o","r">>
s_git_at == <<"g","i","t","@">>
s_Permission_denied == <<"P","e","r","m","i","s","s","i","o","n"," ","d","e","n","i","e","d">>
s_not_found == <<"n","o","t"," ","f","o","u","n","d">>
s_git_at_github == <<"g","i","t","@","g","i","t","h","u","b",".","c","o","m",":">>
s_github_com == <<"g","i","t","h","u","b",".","c","o","m">>
s_dot_git == <<".","g","i","t">>
s_https_github == <<"h","t","t","p","s",":","/","/","g","i","t","h","u","b",".","c","o","m","/">>
s_refs_heads == <<"r","e","f","s","/","h","e","a","d","s","/">>
s_Invalid_branch_name == <<"I","n","v","a","l","i","d"," ","b","r","a","n","c","h"," ","n","a","m","e","."," ","B","r","a","n","c","h"," ","n","a","m","e","s"," ","m","u","s","t"," ","c","o","n","t","a","i","n"," ","o","n","l","y"," ","a","l","p","h","a","n","u","m","e","r","i","c"," ","c","h","a","r","a","c","t","e","r","s",","," ","s","l","a","s","h","e","s",","," ","u","n","d","e","r","s","c","o","r","e","s",","," ","h","y","p","h","e","n","s",","," ","a","n","d"," ","p","e","r","i","o","d","s",".">>

(* Values used by the executor's test, LagoonExecutor.test.mjs.            *)
s_Test_Action == <<"T","e","s","t"," ","A","c","t","i","o","n">>
s_Command_failed == <<"C","o","m","m","a","n","d"," ","f","a","i","l","e","d">>
s_spawn_ENOENT == <<"s","p","a","w","n"," ","l","a","g","o","o","n"," ","E","N","O","E","N","T">>
s_mock_stdout == <<"m","o","c","k"," ","s","t","d","o","u","t">>
s_amazeeio == <<"a","m","a","z","e","e",".","i","o">>
s_test_project == <<"t","e","s","t","-","p","r","o","j","e","c","t">>
s_dev == <<"d","e","v">>

-----------------------------------------------------------------------------
(* JavaScript values.                                                      *)

Null == <<"null">>
Undefined == <<"undefined">>

\* if (v) for a string, null or undefined
Truthy(v) == v # Null /\ v # Undefined /\ v # <<>>

\* Array.prototype.join(sep) on an array of strings
RECURSIVE join(_, _)
join(arr, sep) ==
    IF arr = <<>> THEN <<>>
    ELSE IF Len(arr) = 1 THEN arr[1]
    ELSE arr[1] \o sep \o join(Tail(arr), sep)

\* String.prototype.startsWith(prefix)
startsWith(s, prefix) ==
    /\ Len(s) >= Len(prefix)
    /\ SubSeq(s, 1, Len(prefix)) = prefix

\* String.prototype.indexOf(sub), counted from 1; 0 when absent (JavaScript's -1)
indexOf(s, sub) ==
    LET hits == {i \in 1..(Len(s) + 1) :
                    /\ i + Len(sub) - 1 <= Len(s)
                    /\ SubSeq(s, i, i + Len(sub) - 1) = sub}
    IN IF hits = {} THEN 0 ELSE CHOOSE i \in hits : \A j \in hits : i <= j

\* String.prototype.includes(sub)
includes(s, sub) == indexOf(s, sub) # 0

\* String.prototype.replace(sub, rep) with a string pattern: the first occurrence only
replace(s, sub, rep) ==
    LET i == indexOf(s, sub) IN
    IF i = 0 THEN s
    ELSE SubSeq(s, 1, i - 1) \o rep \o SubSeq(s, i + Len(sub), Len(s))

\* String.prototype.split(c) for a one-character separator c
RECURSIVE split(_, _)
split(s, c) ==
    LET i == indexOf(s, <<c>>) IN
    IF i = 0 THEN <<s>>
    ELSE <<SubSeq(s, 1, i - 1)>> \o split(SubSeq(s, i + 1, Len(s)), c)

WhiteSpace == {" ", "\t", "\n", "\r"}

LineTerminators == {"\n", "\r"}

RECURSIVE trimStart(_)
trimStart(s) ==
    IF s # <<>> /\ Head(s) \in WhiteSpace THEN trimStart(Tail(s)) ELSE s

RECURSIVE trimEnd(_)
trimEnd(s) ==
    IF s # <<>> /\ s[Len(s)] \in WhiteSpace THEN trimEnd(SubSeq(s, 1, Len(s) - 1)) ELSE s

\* String.prototype.trim()
trim(s) == trimEnd(trimStart(s))

\* Array.prototype.filter is SelectSeq; Array.prototype.map:
map(arr, F(_)) == [i \in 1..Len(arr) |-> F(arr[i])]

\* `${v}` for a string, null or undefined
ToStr(v) ==
    IF v = Null THEN <<"n","u","l","l">>
    ELSE IF v = Undefined THEN <<"u","n","d","e","f","i","n","e","d">>
    ELSE v

NoError == [kind |-> "none", message |-> <<>>]

\* new Error(message)
MkError(message) == [kind |-> "Error", message |-> message]

-----------------------------------------------------------------------------
(* The command model: GitCommand and LagoonCommand.                        *)

NewGitCommand == [baseCommand |-> s_git, args |-> <<>>]

lsRemote(cmd, gitUrl) ==
    IF Truthy(gitUrl)
    THEN [cmd EXCEPT !.args = <<s_ls_remote, s_heads, gitUrl>>]
    ELSE cmd

NewLagoonCommand == [baseCommand |-> s_lagoon, args |-> <<>>]

withInstance_unguarded(cmd, instance) ==
    [cmd EXCEPT !.args = @ \o <<s_dash_l, instance>>]

withInstance(cmd, instance) ==
    IF Truthy(instance)
    THEN [cmd EXCEPT !.args = @ \o <<s_dash_l, instance>>]
    ELSE cmd

withProject(cmd, project) ==
    IF Truthy(project)
    THEN [cmd EXCEPT !.args = @ \o <<s_dash_p, project>>]
    ELSE cmd

withEnvironment(cmd, environment) ==
    IF Truthy(environment)
    THEN [cmd EXCEPT !.args = @ \o <<s_dash_e, environment>>]
    ELSE cmd

withJsonOutput_prepend(cmd) == [cmd EXCEPT !.args = <<s_output_json>> \o @]

withJsonOutput(cmd) == [cmd EXCEPT !.args = @ \o <<s_output_json>>]

withForce(cmd) == [cmd EXCEPT !.args = @ \o <<s_force>>]

listConfigs(cmd) == [cmd EXCEPT !.args = @ \o <<s_config, s_list>>]

listProjects(cmd) == [cmd EXCEPT !.args = @ \o <<s_list, s_projects>>]

listEnvironments(cmd) == [cmd EXCEPT !.args = @ \o <<s_list, s_environments>>]

listUsers(cmd) == [cmd EXCEPT !.args = @ \o <<s_list, s_all_users>>]

cmdDeleteEnvironment(cmd, environmentName) ==
    IF Truthy(environmentName)
    THEN [cmd EXCEPT !.args = @ \o <<s_delete, s_environment, s_dd_environment, environmentName>>]
    ELSE cmd

cmdDeployBranch(cmd, branchName) ==
    IF Truthy(branchName)
    THEN [cmd EXCEPT !.args = @ \o <<s_deploy, s_branch, s_dd_branch, branchName>>]
    ELSE cmd

login(cmd) == [cmd EXCEPT !.args = @ \o <<s_login>>]

ssh(cmd, command) ==
    IF Truthy(command)
    THEN [cmd EXCEPT !.args = @ \o <<s_ssh, s_dash_C, command>>]
    ELSE cmd

getArgs(cmd) == cmd.args

getBaseCommand(cmd) == cmd.baseCommand

getCommandArray(cmd) == <<cmd.baseCommand>> \o cmd.args

\* `${this.baseCommand} ${this.args.join(' ')}`
toString(cmd) == cmd.baseCommand \o s_space \o join(cmd.args, s_space)

-----------------------------------------------------------------------------
(* The executor: LagoonExecutor.execute(command, action).                  *)

\* The logger is any value a caller may pass to the constructor: null,
\* undefined, or an object whose logAction and logError have some typeof.
\* A logger method that is a function returns normally, as the mock of the
\* executor's test and logAction/logError of logger.mjs do.
TypeOfs == {"function", "undefined", "string"}

Loggers ==
    {[kind |-> k, logAction |-> "undefined", logError |-> "undefined"] : k \in {"null", "undefined"}}
    \cup {[kind |-> "object", logAction |-> a, logError |-> e] : a \in TypeOfs, e \in TypeOfs}

\* the singleton of lagoon-api.mjs: new LagoonExecutor({ logAction, logError })
ModuleLogger == [kind |-> "object", logAction |-> "function", logError |-> "function"]

\* action = 'Unknown Action' : the default applies to an omitted (undefined) argument
DefaultAction(action) == IF action = Undefined THEN s_Unknown_Action ELSE action

\* The error of calling a missing method (no path of the code below raises it).
TypeErrorNotAFunction == [kind |-> "TypeError", message |-> <<"n","o","t"," ","a"," ","f","u","n","c","t","i","o","n">>]

\* this.execFileAsync(baseCommand, args): the executable and the argument vector, no shell
ExecFileCall_displayString(command) ==
    [api |-> "exec", file |-> toString(command), args |-> <<>>]

ExecFileCall(command) ==
    [api |-> "execFile", file |-> getBaseCommand(command), args |-> getArgs(command)]

\* console.log(chalk.blue(`Executing: ${chalk.bold(command.toString())}`)), styling aside
ConsoleLine(command) == s_Executing \o toString(command)

\* if (this.logger && typeof this.logger.logAction === 'function') this.logger.logAction(...)
CallLogAction_unguarded(lg, action, command) ==
    IF lg.kind = "object" /\ lg.logAction = "function"
    THEN [calls |-> << [fn |-> "logAction", action |-> action,
                        command |-> toString(command), result |-> s_Success] >>,
          raised |-> NoError]
    ELSE [calls |-> <<>>, raised |-> TypeErrorNotAFunction]

CallLogAction_swapped(lg, action, command) ==
    IF lg.kind = "object" /\ lg.logAction = "function"
    THEN [calls |-> << [fn |-> "logAction", action |-> toString(command),
                        command |-> action, result |-> s_Success] >>,
          raised |-> NoError]
    ELSE [calls |-> <<>>, raised |-> NoError]

CallLogAction(lg, action, command) ==
    IF lg.kind = "object" /\ lg.logAction = "function"
    THEN [calls |-> << [fn |-> "logAction", action |-> action,
                        command |-> toString(command), result |-> s_Success] >>,
          raised |-> NoError]
    ELSE [calls |-> <<>>, raised |-> NoError]

\* if (this.logger && typeof this.logger.logError === 'function') this.logger.logError(...)
CallLogError(lg, action, command, error) ==
    IF lg.kind = "object" /\ lg.logError = "function"
    THEN [calls |-> << [fn |-> "logError", action |-> action,
                        command |-> toString(command), error |-> error] >>,
          raised |-> NoError]
    ELSE [calls |-> <<>>, raised |-> NoError]

Returned(value) == [status |-> "returned", value |-> value]

Thrown(error) == [status |-> "thrown", error |-> error]

\* try { result = await ...; log; return result } catch (error) { log; throw error }
\* from the completion of the child process on: the logger calls made and the outcome.
ExecuteSettle_swallow(lg, frame, completion) ==
    IF completion.ok
    THEN [calls |-> CallLogAction(lg, frame.action, frame.command).calls,
          outcome |-> Returned(completion.result)]
    ELSE [calls |-> CallLogError(lg, frame.action, frame.command, completion.error).calls,
          outcome |-> Returned(Undefined)]

ExecuteSettle(lg, frame, completion) ==
    IF completion.ok
    THEN LET s == CallLogAction(lg, frame.action, frame.command) IN
         IF s.raised = NoError
         THEN [calls |-> s.calls, outcome |-> Returned(completion.result)]
         ELSE LET c == CallLogError(lg, frame.action, frame.command, s.raised) IN
              [calls |-> s.calls \o c.calls,
               outcome |-> Thrown(IF c.raised = NoError THEN s.raised ELSE c.raised)]
    ELSE LET c == CallLogError(lg, frame.action, frame.command, completion.error) IN
         [calls |-> c.calls,
          outcome |-> Thrown(IF c.raised = NoError THEN completion.error ELSE c.raised)]

\* currentProjectDetails = null
NullDetails == [null |-> TRUE]

\* a flow's locals: the list offered, the selection made, the loop's position
NoLocals == [flow |-> "none", choices |-> <<>>, selected |-> <<>>, idx |-> 0, confirmed |-> FALSE]

\* the configuration file: absent, or a document with or without `lagoons`,
\* which maps instance names to their sshkey ('' when the member is not set)
NoConfigFile == [exists |-> FALSE, hasLagoons |-> FALSE, lagoons |-> <<>>]

NoFrame == [command |-> NewLagoonCommand, action |-> Undefined]

\* The command objects, by reference: `new LagoonCommand()` and `new GitCommand()`.
RefLagoon == <<"LagoonCommand">>

RefGit == <<"GitCommand">>

NewCommands == [r \in {RefLagoon, RefGit} |-> IF r = RefLagoon THEN NewLagoonCommand ELSE NewGitCommand]

\* no caller is building a command step by step
NoBuilder ==
    /\ commands = NewCommands
    /\ chain = <<>>

\* execute() up to its await: read the command, print it, start the process.
ExecuteStart(command, action) ==
    /\ execFrame' = [command |-> command, action |-> DefaultAction(action)]
    /\ consoleOut' = Append(consoleOut, ConsoleLine(command))
    /\ spawnLog' = Append(spawnLog, ExecFileCall(command))
    /\ running' = Append(running, ExecFileCall(command))
    /\ UNCHANGED <<logger, logCalls, exited>>
    /\ UNCHANGED cmdVars

\* execLagoonCommand(command, action) of lagoon-api.js, the only definition of the
\* name that lagoon-ssh-key-configurator.mjs imports: command is ONE string, run
\* by child_process.exec, that is by a shell.
ExecCall(commandLine) == [api |-> "exec", commandLine |-> commandLine]

execLagoonCommandStart(commandLine, action) ==
    /\ execFrame' = [command |-> commandLine, action |-> DefaultAction(action)]
    /\ consoleOut' = Append(consoleOut, s_Executing \o commandLine)
    /\ spawnLog' = Append(spawnLog, ExecCall(commandLine))
    /\ running' = Append(running, ExecCall(commandLine))
    /\ UNCHANGED <<logger, logCalls, exited>>
    /\ UNCHANGED cmdVars

\* try { result = await execAsync(command); logAction(...); return result }
\* catch (error) { logError(...); throw error }
execLagoonCommandSettle(frame, completion) ==
    IF completion.ok
    THEN [calls |-> << [fn |-> "logAction", action |-> frame.action,
                        command |-> frame.command, result |-> s_Success] >>,
          outcome |-> Returned(completion.result)]
    ELSE [calls |-> << [fn |-> "logError", action |-> frame.action,
                        command |-> frame.command, error |-> completion.error] >>,
          outcome |-> Thrown(completion.error)]

-----------------------------------------------------------------------------
(* The output of a child process.  The stdout of a command run with         *)
(* --output-json is either the JSON document the CLI printed, modelled by   *)
(* the parsed document itself, or text that is no JSON.  A document has the *)
(* members the code reads: result, message and data (hasData tells whether  *)
(* the member is there).                                                    *)

NoDoc == [result |-> Undefined, message |-> Undefined, hasData |-> FALSE, data |-> <<>>]

JsonOut(doc) == [isJson |-> TRUE, doc |-> doc, text |-> <<>>]

TextOut(text) == [isJson |-> FALSE, doc |-> NoDoc, text |-> text]

ResultDoc(result, message) ==
    [result |-> result, message |-> message, hasData |-> FALSE, data |-> <<>>]

DataDoc(data) ==
    [result |-> Undefined, message |-> Undefined, hasData |-> TRUE, data |-> data]

\* JSON.parse(stdout): the document, or a SyntaxError
JSONparse(stdout) ==
    IF stdout.isJson
    THEN [status |-> "returned", value |-> stdout.doc]
    ELSE [status |-> "thrown",
          error |-> [kind |-> "SyntaxError",
                     message |-> <<"U","n","e","x","p","e","c","t","e","d"," ","t","o","k","e","n">>]]

Quoted(s) == <<"\"">> \o s \o <<"\"">>

\* JSON.stringify(response) of a document with result and message members
JSONstringify(doc) ==
    <<"{">>
    \o join((IF doc.result = Undefined THEN <<>>
             ELSE << <<"\"","r","e","s","u","l","t","\"",":">> \o Quoted(doc.result) >>)
            \o (IF doc.message = Undefined THEN <<>>
                ELSE << <<"\"","m","e","s","s","a","g","e","\"",":">> \o Quoted(doc.message) >>),
            <<",">>)
    \o <<"}">>

\* reading a member of undefined: configData.data.map(...) without data
TypeErrorUndefinedMap ==
    [kind |-> "TypeError",
     message |-> <<"C","a","n","n","o","t"," ","r","e","a","d"," ","p","r","o","p","e","r","t","i","e","s"," ","o","f"," ","u","n","d","e","f","i","n","e","d">>]

-----------------------------------------------------------------------------
(* The API operations of lagoon-api.mjs.  Each is modelled in two parts:   *)
(* XBegin is the operation up to its await of execCommand (a plan: either  *)
(* the error it throws before any command exists, or the command it built  *)
(* and the action label), XResume is the rest, from the outcome x of       *)
(* execCommand to the outcome of the operation.                            *)

Reject(error) ==
    [spawn |-> FALSE, error |-> error, command |-> NewLagoonCommand, action |-> <<>>, logs |-> <<>>]

Spawn(command, action) ==
    [spawn |-> TRUE, error |-> NoError, command |-> command, action |-> action, logs |-> <<>>]

\* catch (error) { throw new Error(`<prefix>${error.message}`) }
Wrap(prefix, error) == MkError(prefix \o error.message)

\* getLagoonInstances()
getLagoonInstancesBegin ==
    Spawn(withJsonOutput(listConfigs(NewLagoonCommand)),
          <<"L","i","s","t"," ","L","a","g","o","o","n"," ","I","n","s","t","a","n","c","e","s">>)

InstancePrefix == <<"F","a","i","l","e","d"," ","t","o"," ","g","e","t"," ","L","a","g","o","o","n"," ","i","n","s","t","a","n","c","e","s",":"," ">>

\* fullName.split(/\s+|\(/).shift().trim(): the name up to the first white space or '('
RECURSIVE baseName(_)
baseName(fullName) ==
    IF fullName = <<>> \/ Head(fullName) \in WhiteSpace \cup {"("}
    THEN <<>>
    ELSE <<Head(fullName)>> \o baseName(Tail(fullName))

ItemName(item) == item.name

InstanceBaseName(item) == baseName(item.name)

getLagoonInstancesResume(c, x) ==
    IF x.status = "thrown" THEN Thrown(Wrap(InstancePrefix, x.error))
    ELSE LET p == JSONparse(x.value.stdout) IN
         IF p.status = "thrown" THEN Thrown(Wrap(InstancePrefix, p.error))
         ELSE IF ~p.value.hasData THEN Thrown(Wrap(InstancePrefix, TypeErrorUndefinedMap))
         ELSE Returned(map(p.value.data, InstanceBaseName))

\* getProjectsWithDetails(instance) and getProjects(instance)
getProjectsBegin(instance) ==
    Spawn(withJsonOutput(listProjects(withInstance(NewLagoonCommand, instance))),
          <<"L","i","s","t"," ","P","r","o","j","e","c","t","s"," ","f","o","r"," ">> \o ToStr(instance))

ProjectsPrefix(instance) ==
    <<"F","a","i","l","e","d"," ","t","o"," ","g","e","t"," ","p","r","o","j","e","c","t","s"," ","f","o","r"," ","i","n","s","t","a","n","c","e"," ">>
    \o ToStr(instance) \o <<":"," ">>

getProjectsWithDetailsResume(c, x) ==
    IF x.status = "thrown" THEN Thrown(Wrap(ProjectsPrefix(c.instance), x.error))
    ELSE LET p == JSONparse(x.value.stdout) IN
         IF p.status = "thrown" THEN Thrown(Wrap(ProjectsPrefix(c.instance), p.error))
         ELSE Returned(IF p.value.hasData THEN p.value.data ELSE Undefined)

ProjectName(item) == item.projectname

getProjectsResume(c, x) ==
    IF x.status = "thrown" THEN Thrown(Wrap(ProjectsPrefix(c.instance), x.error))
    ELSE LET p == JSONparse(x.value.stdout) IN
         IF p.status = "thrown" THEN Thrown(Wrap(ProjectsPrefix(c.instance), p.error))
         ELSE IF ~p.value.hasData THEN Thrown(Wrap(ProjectsPrefix(c.instance), TypeErrorUndefinedMap))
         ELSE Returned(map(p.value.data, ProjectName))

\* getEnvironments(instance, project)
getEnvironmentsBegin(instance, project) ==
    Spawn(withJsonOutput(listEnvironments(withProject(withInstance(NewLagoonCommand, instance), project))),
          <<"L","i","s","t"," ","E","n","v","i","r","o","n","m","e","n","t","s"," ","f","o","r"," ">> \o ToStr(project))

EnvironmentsPrefix(project) ==
    <<"F","a","i","l","e","d"," ","t","o"," ","g","e","t"," ","e","n","v","i","r","o","n","m","e","n","t","s"," ","f","o","r"," ","p","r","o","j","e","c","t"," ">>
    \o ToStr(project) \o <<":"," ">>

getEnvironmentsResume(c, x) ==
    IF x.status = "thrown" THEN Thrown(Wrap(EnvironmentsPrefix(c.project), x.error))
    ELSE LET p == JSONparse(x.value.stdout) IN
         IF p.status = "thrown" THEN Thrown(Wrap(EnvironmentsPrefix(c.project), p.error))
         ELSE IF ~p.value.hasData THEN Thrown(Wrap(EnvironmentsPrefix(c.project), TypeErrorUndefinedMap))
         ELSE Returned(map(p.value.data, ItemName))

\* getUsers(instance, project)
getUsersBegin(instance, project) ==
    Spawn(listUsers(withProject(withInstance(NewLagoonCommand, instance), project)),
          <<"L","i","s","t"," ","U","s","e","r","s"," ","f","o","r"," ">> \o ToStr(project))

NotBlank(line) == trim(line) # <<>>

\* line.split('|').map(part => part.trim())[0]
FirstColumn(line) == trim(split(line, "|")[1])

\* A variant that takes the header line for a user.
parseUsers_keepHeader(stdout) ==
    map(SelectSeq(split(stdout, "\n"), NotBlank), FirstColumn)

\* the parser of the tabular output: non-blank lines, header dropped, first column
parseUsers(stdout) ==
    LET lines == SelectSeq(split(stdout, "\n"), NotBlank) IN
    map(SubSeq(lines, 2, Len(lines)), FirstColumn)

getUsersResume(c, x) ==
    IF x.status = "thrown"
    THEN Thrown(Wrap(<<"F","a","i","l","e","d"," ","t","o"," ","g","e","t"," ","u","s","e","r","s"," ","f","o","r"," ","p","r","o","j","e","c","t"," ">>
                     \o ToStr(c.project) \o <<":"," ">>, x.error))
    ELSE Returned(parseUsers(x.value.stdout.text))


\* deleteEnvironment(instance, project, environment): the guard of lines 172-177
DeleteGuard_noPrefix(environment) ==
    \/ environment = s_production
    \/ environment = s_master
    \/ environment = s_develop

DeleteGuard(environment) ==
    \/ environment = s_production
    \/ environment = s_master
    \/ environment = s_develop
    \/ startsWith(environment, s_project_slash)

DeletePrefix(environment) ==
    <<"F","a","i","l","e","d"," ","t","o"," ","d","e","l","e","t","e"," ","e","n","v","i","r","o","n","m","e","n","t"," ">>
    \o environment \o <<":"," ">>

deleteEnvironmentBegin(instance, project, environment) ==
    IF DeleteGuard(environment)
    THEN Reject(MkError(<<"C","a","n","n","o","t"," ","d","e","l","e","t","e"," ","p","r","o","t","e","c","t","e","d"," ","e","n","v","i","r","o","n","m","e","n","t",":"," ">>
                        \o environment))
    ELSE Spawn(withJsonOutput(withForce(cmdDeleteEnvironment(
                   withProject(withInstance(NewLagoonCommand, instance), project), environment))),
               <<"D","e","l","e","t","e"," ","E","n","v","i","r","o","n","m","e","n","t"," ">>
               \o environment \o <<" ","f","r","o","m"," ">> \o ToStr(project))

\* `${response}` of a parsed object
s_object_Object == <<"[","o","b","j","e","c","t"," ","O","b","j","e","c","t","]">>

deleteEnvironmentResume_lenient(c, x) ==
    IF x.status = "thrown" THEN Thrown(Wrap(DeletePrefix(c.target), x.error))
    ELSE LET p == JSONparse(x.value.stdout) IN
         IF p.status = "thrown" THEN Thrown(Wrap(DeletePrefix(c.target), p.error))
         ELSE IF p.value.result # s_error THEN Returned(TRUE)
         ELSE Thrown(Wrap(DeletePrefix(c.target),
                          MkError(DeletePrefix(c.target) \o s_object_Object)))

deleteEnvironmentResume(c, x) ==
    IF x.status = "thrown" THEN Thrown(Wrap(DeletePrefix(c.target), x.error))
    ELSE LET p == JSONparse(x.value.stdout) IN
         IF p.status = "thrown" THEN Thrown(Wrap(DeletePrefix(c.target), p.error))
         ELSE IF p.value.result = s_success THEN Returned(TRUE)
         ELSE Thrown(Wrap(DeletePrefix(c.target),
                          MkError(DeletePrefix(c.target) \o s_object_Object)))

\* generateLoginLink(instance, project, environment): the guard of line 214
LoginLinkGuard_asDelete(environment) == DeleteGuard(environment)

LoginLinkGuard(environment) ==
    \/ environment = s_production
    \/ environment = s_master

generateLoginLinkBegin(instance, project, environment) ==
    IF LoginLinkGuard(environment)
    THEN Reject(MkError(<<"C","a","n","n","o","t"," ","g","e","n","e","r","a","t","e"," ","l","o","g","i","n"," ","l","i","n","k"," ","f","o","r"," ","p","r","o","t","e","c","t","e","d"," ","e","n","v","i","r","o","n","m","e","n","t",":"," ">>
                        \o environment))
    ELSE Spawn(ssh(withEnvironment(withProject(withInstance(NewLagoonCommand, instance), project),
                                   environment), s_drush_uli),
               <<"G","e","n","e","r","a","t","e"," ","L","o","g","i","n"," ","L","i","n","k"," ","f","o","r"," ">>
               \o environment \o <<" ","i","n"," ">> \o ToStr(project))

generateLoginLinkResume(c, x) ==
    IF x.status = "thrown"
    THEN Thrown(Wrap(<<"F","a","i","l","e","d"," ","t","o"," ","g","e","n","e","r","a","t","e"," ","l","o","g","i","n"," ","l","i","n","k"," ","f","o","r"," ","e","n","v","i","r","o","n","m","e","n","t"," ">>
                     \o c.target \o <<":"," ">>, x.error))
    ELSE Returned(trim(x.value.stdout.text))

\* clearDrupalCache(instance, project, environment)
clearDrupalCacheBegin(instance, project, environment) ==
    Spawn(ssh(withEnvironment(withProject(withInstance(NewLagoonCommand, instance), project),
                              environment), s_drush_cr),
          <<"C","l","e","a","r"," ","C","a","c","h","e"," ","f","o","r"," ">>
          \o environment \o <<" ","i","n"," ">> \o ToStr(project))

clearDrupalCacheResume(c, x) ==
    IF x.status = "thrown"
    THEN Thrown(Wrap(<<"F","a","i","l","e","d"," ","t","o"," ","c","l","e","a","r"," ","c","a","c","h","e"," ","f","o","r"," ","e","n","v","i","r","o","n","m","e","n","t"," ">>
                     \o c.target \o <<":"," ">>, x.error))
    ELSE Returned(trim(x.value.stdout.text))

\* getGitBranches(gitUrl)
BranchesPrefix == <<"F","a","i","l","e","d"," ","t","o"," ","g","e","t"," ","g","i","t"," ","b","r","a","n","c","h","e","s",":"," ">>

\* the outer catch: logError('List Branches', `git ls-remote ${gitUrl}`, error)
BranchesLogError(gitUrl, error) ==
    [fn |-> "logError",
     action |-> <<"L","i","s","t"," ","B","r","a","n","c","h","e","s">>,
     command |-> <<"g","i","t"," ","l","s","-","r","e","m","o","t","e"," ">> \o ToStr(gitUrl),
     error |-> error]

s_Git_URL_not_provided == <<"G","i","t"," ","U","R","L"," ","n","o","t"," ","p","r","o","v","i","d","e","d"," ","o","r"," ","i","n","v","a","l","i","d">>

getGitBranchesBegin(gitUrl) ==
    IF ~Truthy(gitUrl)
    THEN [Reject(Wrap(BranchesPrefix, MkError(s_Git_URL_not_provided)))
          EXCEPT !.logs = <<BranchesLogError(gitUrl, MkError(s_Git_URL_not_provided))>>]
    ELSE Spawn(lsRemote(NewGitCommand, gitUrl),
               <<"L","i","s","t"," ","B","r","a","n","c","h","e","s"," ","f","o","r"," ">> \o gitUrl)

\* A variant that captures what follows the last 'refs/heads/' of the line.
matchRefsHeads_last(line) ==
    LET n == Len(s_refs_heads)
        starts == {i \in 1..Len(line) :
                      /\ i + n <= Len(line)
                      /\ SubSeq(line, i, i + n - 1) = s_refs_heads}
    IN IF starts = {} THEN Null
       ELSE LET i == CHOOSE i \in starts : \A j \in starts : i >= j
            IN SubSeq(line, i + n, Len(line))

\* line.match(/refs\/heads\/(.+)$/): the leftmost 'refs/heads/' that is followed,
\* up to the end of the line, by one or more characters none of which is a line
\* terminator; the capture, or null
matchRefsHeads(line) ==
    LET n == Len(s_refs_heads)
        starts == {i \in 1..Len(line) :
                      /\ i + n <= Len(line)
                      /\ SubSeq(line, i, i + n - 1) = s_refs_heads
                      /\ \A k \in (i + n)..Len(line) : line[k] \notin LineTerminators}
    IN IF starts = {} THEN Null
       ELSE LET i == CHOOSE i \in starts : \A j \in starts : i <= j
            IN SubSeq(line, i + n, Len(line))

NotNull(v) == v # Null

\* the parser of the ls-remote output
parseBranches(stdout) ==
    SelectSeq(map(SelectSeq(split(stdout, "\n"), NotBlank), matchRefsHeads), NotNull)

\* the inner catch of getGitBranches: the error that reaches the outer catch
BranchesInnerCatch(gitUrl, error) ==
    IF startsWith(gitUrl, s_git_at) /\ includes(error.message, s_Permission_denied)
    THEN MkError(<<"A","u","t","h","e","n","t","i","c","a","t","i","o","n"," ","f","a","i","l","e","d"," ","f","o","r"," ">>
                 \o gitUrl
                 \o <<"."," ","P","l","e","a","s","e"," ","c","h","e","c","k"," ","y","o","u","r"," ","S","S","H"," ","k","e","y"," ","c","o","n","f","i","g","u","r","a","t","i","o","n",".">>)
    ELSE IF includes(error.message, s_not_found)
    THEN MkError(<<"R","e","p","o","s","i","t","o","r","y"," ","n","o","t"," ","f","o","u","n","d",":"," ">>
                 \o gitUrl
                 \o <<"."," ","P","l","e","a","s","e"," ","c","h","e","c","k"," ","i","f"," ","t","h","e"," ","U","R","L"," ","i","s"," ","c","o","r","r","e","c","t",".">>)
    ELSE error

getGitBranchesResume(c, x) ==
    IF x.status = "thrown"
    THEN Thrown(Wrap(BranchesPrefix, BranchesInnerCatch(c.target, x.error)))
    ELSE Returned(parseBranches(x.value.stdout.text))

\* deployBranch(instance, project, branch): /^[a-zA-Z0-9_./-]+$/.test(branch)
Letters == {"a","b","c","d","e","f","g","h","i","j","k","l","m","n","o","p","q","r","s","t","u","v","w","x","y","z",
            "A","B","C","D","E","F","G","H","I","J","K","L","M","N","O","P","Q","R","S","T","U","V","W","X","Y","Z"}

Digits == {"0","1","2","3","4","5","6","7","8","9"}

BranchChars == Letters \cup Digits \cup {"_", ".", "/", "-"}

BranchNameValid_anyChar(branch) ==
    LET s == ToStr(branch) IN
    /\ Len(s) >= 1
    /\ \E i \in 1..Len(s) : s[i] \in BranchChars

BranchNameValid(branch) ==
    LET s == ToStr(branch) IN
    /\ Len(s) >= 1
    /\ \A i \in 1..Len(s) : s[i] \in BranchChars

DeployPrefix(branch) ==
    <<"F","a","i","l","e","d"," ","t","o"," ","d","e","p","l","o","y"," ","b","r","a","n","c","h"," ">>
    \o ToStr(branch) \o <<":"," ">>

deployBranchBegin(instance, project, branch) ==
    IF ~BranchNameValid(branch)
    THEN Reject(Wrap(DeployPrefix(branch),
                     MkError(s_Invalid_branch_name)))
    ELSE Spawn(withJsonOutput(cmdDeployBranch(
                   withProject(withInstance(NewLagoonCommand, instance), project), branch)),
               <<"D","e","p","l","o","y"," ","B","r","a","n","c","h"," ">>
               \o ToStr(branch) \o <<" ","t","o"," ">> \o ToStr(project))

deployBranchResume(c, x) ==
    IF x.status = "thrown" THEN Thrown(Wrap(DeployPrefix(c.target), x.error))
    ELSE LET p == JSONparse(x.value.stdout) IN
         IF p.status = "thrown" THEN Thrown(Wrap(DeployPrefix(c.target), p.error))
         ELSE IF p.value.result = s_success
         THEN Returned([success |-> TRUE,
                        message |-> <<"B","r","a","n","c","h"," ">> \o ToStr(c.target)
                                    \o <<" ","i","s"," ","b","e","i","n","g"," ","d","e","p","l","o","y","e","d"," ","t","o"," ">>
                                    \o ToStr(c.project)])
         ELSE IF p.value.result = s_error
         THEN Thrown(Wrap(DeployPrefix(c.target),
                          MkError(DeployPrefix(c.target)
                                  \o (IF Truthy(p.value.message) THEN p.value.message
                                      ELSE JSONstringify(p.value)))))
         ELSE Thrown(Wrap(DeployPrefix(c.target),
                          MkError(<<"U","n","e","x","p","e","c","t","e","d"," ","r","e","s","p","o","n","s","e"," ","w","h","e","n"," ","d","e","p","l","o","y","i","n","g"," ","b","r","a","n","c","h"," ">>
                                  \o ToStr(c.target) \o <<":"," ">> \o JSONstringify(p.value))))

-----------------------------------------------------------------------------
(* What a child process may deliver: execFile resolves with {stdout,       *)
(* stderr} or rejects with an error (nonzero exit, or the spawn failed).   *)

ExecErrors ==
    { [kind |-> "exit", message |-> s_Command_failed],
      [kind |-> "spawn", message |-> s_spawn_ENOENT] }

\* what `git ls-remote` fails with: no access to, or no such, repository
GitExecErrors ==
    { [kind |-> "exit",
       message |-> s_Command_failed \o <<":"," ">> \o s_Permission_denied \o <<" ","(","p","u","b","l","i","c","k","e","y",")">>],
      [kind |-> "exit",
       message |-> s_Command_failed \o <<":"," ","R","e","p","o","s","i","t","o","r","y"," ">> \o s_not_found] }

TestResults ==
    { [stdout |-> TextOut(s_mock_stdout), stderr |-> <<>>],
      [stdout |-> TextOut(<<>>), stderr |-> s_Command_failed] }

s_garbage == <<"<","h","t","m","l",">">>

s_local == <<"l","o","c","a","l">>
s_pr_1 == <<"p","r","-","1">>
s_pr_2 == <<"p","r","-","2">>
s_main == <<"m","a","i","n">>
s_project_slash_x == <<"p","r","o","j","e","c","t","/","x">>

\* `lagoon config list --output-json`
InstanceOutputs ==
    { JsonOut(DataDoc(<< [name |-> s_amazeeio \o <<" ","(","d","e","f","a","u","l","t",")">>],
                         [name |-> s_local] >>)),
      JsonOut(NoDoc),
      TextOut(s_garbage) }

\* `lagoon list projects --output-json`: projects with and without a GitHub URL
ProjectRecords ==
    << [projectname |-> s_test_project,
        giturl |-> s_git_at_github \o <<"o","r","g","/","r","e","p","o">> \o s_dot_git],
       [projectname |-> <<"i","n","t","r","a","n","e","t">>,
        giturl |-> <<"g","i","t","@","g","i","t","l","a","b",".","c","o","m",":","o","/","r",".","g","i","t">>],
       [projectname |-> <<"b","a","r","e">>, giturl |-> <<>>] >>

ProjectOutputs == { JsonOut(DataDoc(ProjectRecords)), TextOut(s_garbage) }

\* `lagoon list environments --output-json`
EnvListings ==
    { <<s_production, s_develop, s_pr_1, s_pr_2>>,
      <<s_master, s_project_slash_x>>,
      <<s_main>>,
      <<>> }

EnvItem(name) == [name |-> name]

EnvironmentOutputs ==
    {JsonOut(DataDoc(map(l, EnvItem))) : l \in EnvListings} \cup {JsonOut(NoDoc), TextOut(s_garbage)}

\* the longest output, in lines, that a listing command is taken to write
MaxLines == 3

\* every text of at most MaxLines lines out of `lines`
Texts(lines) == UNION {[1..n -> lines] : n \in 0..MaxLines}

\* the command writes each line followed by a line feed
RECURSIVE unlines(_)
unlines(lines) ==
    IF lines = <<>> THEN <<>> ELSE Head(lines) \o <<"\n">> \o unlines(Tail(lines))

\* `lagoon list all-users`: a header, rows of '|'-separated columns, blank lines
UserLines ==
    { <<"n","a","m","e","\t","v","a","l","u","e">>,
      <<"u","s","e","r","1","|","a","d","m","i","n","|","u","s","e","r","1","@","e","x","a","m","p","l","e",".","c","o","m">>,
      <<" ","u","s","e","r","2"," ","|"," ","v","i","e","w","e","r"," ">>,
      <<"s","o","l","o">>,
      <<"|","o","w","n","e","r">>,
      <<" "," ">> }

UserOutputs == {TextOut(unlines(lines)) : lines \in Texts(UserLines)}

\* the outputs of it that the interactive session is run over
SessionUserOutputs ==
    { TextOut(unlines(<< <<"n","a","m","e","\t","v","a","l","u","e">>,
                         <<"u","s","e","r","1","|","a","d","m","i","n","|","u","s","e","r","1","@","e","x","a","m","p","l","e",".","c","o","m">>,
                         <<" ","u","s","e","r","2"," ","|"," ","v","i","e","w","e","r"," ">> >>)),
      TextOut(<<>>) }

\* `delete environment` and `deploy branch` with --output-json
MutationOutputs ==
    { JsonOut(ResultDoc(s_success, Undefined)),
      JsonOut(ResultDoc(s_error, <<"d","e","n","i","e","d">>)),
      JsonOut(ResultDoc(<<"q","u","e","u","e","d">>, Undefined)),
      JsonOut(ResultDoc(<<"S","u","c","c","e","s","s">>, Undefined)),
      JsonOut(NoDoc),
      TextOut(s_garbage) }

\* `lagoon ssh -C <command>`
SshOutputs ==
    { TextOut(<<"h","t","t","p","s",":","/","/","x","/","u","l","i","\n">>), TextOut(<<>>) }

\* a line of `git ls-remote --heads <url>`: "<sha>\t<ref>"
RefLine(name) == <<"d","7","\t">> \o s_refs_heads \o name

s_fix_x == <<"f","i","x","/","r","e","f","s","/","h","e","a","d","s","/","x">>

s_Zeta == <<"Z","e","t","a">>

NoRefLine == <<"b","o","g","u","s">>

\* the lines it may write, with lines that name no branch
RefLines ==
    { RefLine(s_main), RefLine(s_master), RefLine(s_develop), RefLine(s_fix_x), RefLine(s_Zeta),
      RefLine(<<>>), NoRefLine, <<" "," ">> }

LsRemoteOutputs == {TextOut(unlines(lines)) : lines \in Texts(RefLines)}

\* the outputs of it that the interactive session is run over
SessionLsRemoteOutputs ==
    { TextOut(unlines(lines)) : lines \in
        { <<RefLine(s_develop), RefLine(s_master), RefLine(s_main)>>,
          <<RefLine(s_master), RefLine(s_fix_x), RefLine(s_main), RefLine(s_develop)>>,
          <<RefLine(s_Zeta), RefLine(s_fix_x), RefLine(s_main)>>,
          <<RefLine(s_fix_x), RefLine(s_develop), RefLine(s_Zeta)>>,
          <<RefLine(s_Zeta), RefLine(s_master), RefLine(s_fix_x), RefLine(s_fix_x)>>,
          <<NoRefLine, RefLine(s_main), RefLine(<<>>)>>,
          <<RefLine(s_fix_x)>>,
          <<NoRefLine>>,
          <<>> } }

Stdouts(op) ==
    CASE op = "execute" -> {r.stdout : r \in TestResults}
      [] op = "getLagoonInstances" -> InstanceOutputs
      [] op \in {"getProjectsWithDetails", "getProjects"} -> ProjectOutputs
      [] op = "getEnvironments" -> EnvironmentOutputs
      [] op = "getUsers" -> UserOutputs
      [] op \in {"deleteEnvironment", "deployBranch"} -> MutationOutputs
      [] op \in {"generateLoginLink", "clearDrupalCache"} -> SshOutputs
      [] op = "getGitBranches" -> LsRemoteOutputs
      [] OTHER -> {TextOut(<<>>)}

\* the interactive session is run over a selection of the listings
SessionStdouts(op) ==
    CASE op = "getUsers" -> SessionUserOutputs
      [] op = "getGitBranches" -> SessionLsRemoteOutputs
      [] OTHER -> Stdouts(op)

Completions(c) ==
    (IF c.op = "execute"
     THEN {[ok |-> TRUE, result |-> r] : r \in TestResults}
     ELSE {[ok |-> TRUE, result |-> [stdout |-> o, stderr |-> <<>>]] :
              o \in IF c.cont = "apiDone" THEN Stdouts(c.op) ELSE SessionStdouts(c.op)})
    \cup {[ok |-> FALSE, error |-> e] :
             e \in ExecErrors \cup (IF c.op = "getGitBranches" THEN GitExecErrors ELSE {})}

\* The caller's continuation once execute() has settled with outcome x:
\* execCommand returns it as it is, and the operation that awaited it resumes.
Resume(c, x) ==
    CASE c.op = "execute" -> x
      [] c.op = "getLagoonInstances" -> getLagoonInstancesResume(c, x)
      [] c.op = "getProjectsWithDetails" -> getProjectsWithDetailsResume(c, x)
      [] c.op = "getProjects" -> getProjectsResume(c, x)
      [] c.op = "getEnvironments" -> getEnvironmentsResume(c, x)
      [] c.op = "getUsers" -> getUsersResume(c, x)
      [] c.op = "deleteEnvironment" -> deleteEnvironmentResume(c, x)
      [] c.op = "generateLoginLink" -> generateLoginLinkResume(c, x)
      [] c.op = "clearDrupalCache" -> clearDrupalCacheResume(c, x)
      [] c.op = "getGitBranches" -> getGitBranchesResume(c, x)
      [] c.op = "deployBranch" -> deployBranchResume(c, x)
      [] c.op = "refreshLagoonToken" -> x

\* the logger calls an operation makes itself, past the executor's, once execute() has settled
ResumeLogs(c, x) ==
    IF c.op = "getGitBranches" /\ x.status = "thrown"
    THEN <<BranchesLogError(c.target, BranchesInnerCatch(c.target, x.error))>>
    ELSE <<>>

Call(op, cont, instance, project, target) ==
    [op |-> op, cont |-> cont, instance |-> instance, project |-> project, target |-> target]

NoCall == Call("none", "none", <<>>, <<>>, <<>>)

\* An API operation is called: it throws before any command exists, or it
\* builds its command and execCommand -> executor.execute starts the process.
ApiStart(plan, c) ==
    /\ call' = c
    /\ IF plan.spawn
       THEN /\ ExecuteStart(plan.command, plan.action)
            /\ pc' = "awaitProcess"
            /\ UNCHANGED ret
       ELSE /\ ret' = Thrown(plan.error)
            /\ pc' = c.cont
            /\ logCalls' = logCalls \o plan.logs
            /\ UNCHANGED <<logger, execFrame, running, spawnLog, consoleOut, exited>>
            /\ UNCHANGED cmdVars

-----------------------------------------------------------------------------
(* The API operations called directly, as a test of lagoon-api.mjs would.  *)

ApiInstances == {s_amazeeio}

ApiProjects == {s_test_project}

ApiEnvironments ==
    { s_production, s_master, s_develop, s_project_slash, s_project_slash_x,
      <<"p","r","o","j","e","c","t">>,
      <<"P","r","o","d","u","c","t","i","o","n">>,
      <<"d","e","v","e","l","o","p","e","r">>,
      <<"m","y","/","p","r","o","j","e","c","t","/">>,
      s_pr_1, s_main, <<>> }

ApiBranches ==
    { s_main, s_develop,
      <<"f","e","a","t","u","r","e","/","A","-","1","_","b",".","2">>,
      <<>>,
      <<"a"," ","b">>,
      <<"x",";","r","m">>,
      <<"$","(","i","d",")">>,
      <<"m","a","i","n","\n">>,
      <<";">>,
      Undefined }

ApiGitUrls ==
    { s_git_at_github \o <<"o","r","g","/","r","e","p","o">> \o s_dot_git, <<>>, Null }

ApiGetLagoonInstances ==
    /\ UNCHANGED sessionVars
    /\ pc = "api"
    /\ ApiStart(getLagoonInstancesBegin, Call("getLagoonInstances", "apiDone", <<>>, <<>>, <<>>))

ApiGetProjects ==
    /\ UNCHANGED sessionVars
    /\ pc = "api"
    /\ \E instance \in ApiInstances, op \in {"getProjects", "getProjectsWithDetails"} :
          ApiStart(getProjectsBegin(instance), Call(op, "apiDone", instance, <<>>, <<>>))

ApiGetEnvironments ==
    /\ UNCHANGED sessionVars
    /\ pc = "api"
    /\ \E instance \in ApiInstances, project \in ApiProjects :
          ApiStart(getEnvironmentsBegin(instance, project),
                   Call("getEnvironments", "apiDone", instance, project, <<>>))

ApiGetUsers ==
    /\ UNCHANGED sessionVars
    /\ pc = "api"
    /\ \E instance \in ApiInstances, project \in ApiProjects :
          ApiStart(getUsersBegin(instance, project),
                   Call("getUsers", "apiDone", instance, project, <<>>))

ApiDeleteEnvironment ==
    /\ UNCHANGED sessionVars
    /\ pc = "api"
    /\ \E instance \in ApiInstances, project \in ApiProjects, environment \in ApiEnvironments :
          ApiStart(deleteEnvironmentBegin(instance, project, environment),
                   Call("deleteEnvironment", "apiDone", instance, project, environment))

ApiGenerateLoginLink ==
    /\ UNCHANGED sessionVars
    /\ pc = "api"
    /\ \E instance \in ApiInstances, project \in ApiProjects, environment \in ApiEnvironments :
          ApiStart(generateLoginLinkBegin(instance, project, environment),
                   Call("generateLoginLink", "apiDone", instance, project, environment))

ApiClearDrupalCache ==
    /\ UNCHANGED sessionVars
    /\ pc = "api"
    /\ \E instance \in ApiInstances, project \in ApiProjects, environment \in ApiEnvironments :
          ApiStart(clearDrupalCacheBegin(instance, project, environment),
                   Call("clearDrupalCache", "apiDone", instance, project, environment))

ApiGetGitBranches ==
    /\ UNCHANGED sessionVars
    /\ pc = "api"
    /\ \E gitUrl \in ApiGitUrls :
          ApiStart(getGitBranchesBegin(gitUrl), Call("getGitBranches", "apiDone", <<>>, <<>>, gitUrl))

ApiDeployBranch ==
    /\ UNCHANGED sessionVars
    /\ pc = "api"
    /\ \E instance \in ApiInstances, project \in ApiProjects, branch \in ApiBranches :
          ApiStart(deployBranchBegin(instance, project, branch),
                   Call("deployBranch", "apiDone", instance, project, branch))

-----------------------------------------------------------------------------
(* The executor called directly, as LagoonExecutor.test.mjs does.          *)

TestCommands ==
    { withJsonOutput(listEnvironments(withProject(withInstance(NewLagoonCommand, s_amazeeio), s_test_project))),
      ssh(withEnvironment(withProject(withInstance(NewLagoonCommand, s_amazeeio), s_test_project), s_dev), s_drush_cr),
      withJsonOutput(withForce(cmdDeleteEnvironment(withProject(withInstance(NewLagoonCommand, s_amazeeio), s_test_project), s_dev))),
      lsRemote(NewGitCommand, s_amazeeio),
      NewLagoonCommand,
      NewGitCommand }

TestActions == {s_Test_Action, Undefined}

TestExecute ==
    /\ UNCHANGED sessionVars
    /\ pc = "test"
    /\ \E command \in TestCommands, action \in TestActions :
          ExecuteStart(command, action)
    /\ call' = Call("execute", "testDone", <<>>, <<>>, <<>>)
    /\ pc' = "awaitProcess"
    /\ UNCHANGED ret

\* A variant that starts the failed command a second time before settling.
ProcessCompletes_retryOnce ==
    /\ pc = "awaitProcess"
    /\ running # <<>>
    /\ \E completion \in Completions(call) :
          LET s == IF call.op = "refreshLagoonToken"
                   THEN execLagoonCommandSettle(execFrame, completion)
                   ELSE ExecuteSettle(logger, execFrame, completion) IN
          /\ exited' = Append(exited, completion)
          /\ IF ~completion.ok /\ Len(spawnLog) = 1 /\ exited = <<>>
             THEN /\ logCalls' = logCalls \o s.calls
                  /\ spawnLog' = Append(spawnLog, spawnLog[1])
                  /\ UNCHANGED <<ret, running, pc>>
             ELSE /\ logCalls' = logCalls \o s.calls \o ResumeLogs(call, s.outcome)
                  /\ ret' = Resume(call, s.outcome)
                  /\ running' = Tail(running)
                  /\ pc' = call.cont
                  /\ UNCHANGED spawnLog
    /\ UNCHANGED <<logger, call, execFrame, consoleOut>>
    /\ UNCHANGED sessionVars
    /\ UNCHANGED cmdVars

\* The child process completes; execute() settles and its caller resumes.
ProcessCompletes ==
    /\ pc = "awaitProcess"
    /\ running # <<>>
    /\ \E completion \in Completions(call) :
          LET s == IF call.op = "refreshLagoonToken"
                   THEN execLagoonCommandSettle(execFrame, completion)
                   ELSE ExecuteSettle(logger, execFrame, completion) IN
          /\ exited' = Append(exited, completion)
          /\ logCalls' = logCalls \o s.calls \o ResumeLogs(call, s.outcome)
          /\ ret' = Resume(call, s.outcome)
    /\ running' = Tail(running)
    /\ pc' = call.cont
    /\ UNCHANGED <<logger, call, execFrame, spawnLog, consoleOut>>
    /\ UNCHANGED sessionVars
    /\ UNCHANGED cmdVars

\* The histories start afresh with the next operation.
FreshHistories ==
    /\ execFrame' = NoFrame
    /\ running' = <<>>
    /\ spawnLog' = <<>>
    /\ consoleOut' = <<>>
    /\ logCalls' = <<>>
    /\ exited' = <<>>
    /\ UNCHANGED cmdVars

\* The test ends; the next one starts from a fresh executor and fresh mocks.
TestReset ==
    /\ UNCHANGED sessionVars
    /\ pc = "testDone"
    /\ pc' = "test"
    /\ logger' \in Loggers
    /\ FreshHistories
    /\ call' = NoCall
    /\ ret' = Returned(Undefined)

\* no session runs: startInteractiveMode's variables as it first sets them
SessionIdle ==
    /\ currentInstance = Null
    /\ currentProject = Null
    /\ currentProjectDetails = NullDetails
    /\ githubBaseUrl = Null
    /\ exit = FALSE
    /\ locals = NoLocals
    /\ reports = <<>>
    /\ sessionLog = <<>>
    /\ lagoonConfig = NoConfigFile
    /\ NoBuilder

InitExec ==
    /\ SessionIdle
    /\ logger \in Loggers
    /\ pc = "test"
    /\ call = NoCall
    /\ execFrame = NoFrame
    /\ running = <<>>
    /\ spawnLog = <<>>
    /\ consoleOut = <<>>
    /\ logCalls = <<>>
    /\ exited = <<>>
    /\ ret = Returned(Undefined)

NextExec == TestExecute \/ ProcessCompletes \/ TestReset

SpecExec == InitExec /\ [][NextExec]_vars

\* The API operations called directly: lagoon-api.mjs and its singleton executor.
ApiReset ==
    /\ UNCHANGED sessionVars
    /\ pc = "apiDone"
    /\ pc' = "api"
    /\ FreshHistories
    /\ call' = NoCall
    /\ ret' = Returned(Undefined)
    /\ UNCHANGED logger

InitApi ==
    /\ SessionIdle
    /\ logger = ModuleLogger
    /\ pc = "api"
    /\ call = NoCall
    /\ execFrame = NoFrame
    /\ running = <<>>
    /\ spawnLog = <<>>
    /\ consoleOut = <<>>
    /\ logCalls = <<>>
    /\ exited = <<>>
    /\ ret = Returned(Undefined)

NextApi ==
    \/ ApiGetLagoonInstances
    \/ ApiGetProjects
    \/ ApiGetEnvironments
    \/ ApiGetUsers
    \/ ApiDeleteEnvironment
    \/ ApiGenerateLoginLink
    \/ ApiClearDrupalCache
    \/ ApiGetGitBranches
    \/ ApiDeployBranch
    \/ ProcessCompletes
    \/ ApiReset

SpecApi == InitApi /\ [][NextApi]_vars

-----------------------------------------------------------------------------
(* The interactive session: startInteractiveMode of interactive.mjs and    *)
(* the flows it dispatches to.  A prompt is an await of the user's answer, *)
(* an API call an await of the child process; pc names the await at which  *)
(* the session stands.  What the flows print for information only (lists,  *)
(* headings, the choices' labels) is not part of the state.  The histories *)
(* cover one pass of the loop and start afresh with the next.              *)

s_NA == <<"N","/","A">>
s_Select_Instance == <<"S","e","l","e","c","t"," ","I","n","s","t","a","n","c","e">>
s_Selected_instance == <<"S","e","l","e","c","t","e","d"," ","i","n","s","t","a","n","c","e",":"," ">>
s_Select_Project == <<"S","e","l","e","c","t"," ","P","r","o","j","e","c","t">>
s_Selected_project == <<"S","e","l","e","c","t","e","d"," ","p","r","o","j","e","c","t",":"," ">>
s_Menu_Selection == <<"M","e","n","u"," ","S","e","l","e","c","t","i","o","n">>
s_Selected_action == <<"S","e","l","e","c","t","e","d"," ","a","c","t","i","o","n",":"," ">>
s_listEnvironments == <<"l","i","s","t","E","n","v","i","r","o","n","m","e","n","t","s">>
s_listUsers == <<"l","i","s","t","U","s","e","r","s">>
s_deleteEnvironment == <<"d","e","l","e","t","e","E","n","v","i","r","o","n","m","e","n","t">>
s_generateLoginLink == <<"g","e","n","e","r","a","t","e","L","o","g","i","n","L","i","n","k">>
s_clearCache == <<"c","l","e","a","r","C","a","c","h","e">>
s_deployBranch == <<"d","e","p","l","o","y","B","r","a","n","c","h">>
s_sshToEnvironment == <<"s","s","h","T","o","E","n","v","i","r","o","n","m","e","n","t">>
s_configureUserSshKey == <<"c","o","n","f","i","g","u","r","e","U","s","e","r","S","s","h","K","e","y">>
s_changeProject == <<"c","h","a","n","g","e","P","r","o","j","e","c","t">>
s_changeInstance == <<"c","h","a","n","g","e","I","n","s","t","a","n","c","e">>
s_exit == <<"e","x","i","t">>
s_Change_Project == <<"C","h","a","n","g","e"," ","P","r","o","j","e","c","t">>
s_Project_selection_reset == <<"P","r","o","j","e","c","t"," ","s","e","l","e","c","t","i","o","n"," ","r","e","s","e","t">>
s_Change_Instance == <<"C","h","a","n","g","e"," ","I","n","s","t","a","n","c","e">>
s_Instance_selection_reset == <<"I","n","s","t","a","n","c","e"," ","s","e","l","e","c","t","i","o","n"," ","r","e","s","e","t">>
s_Exit_Application == <<"E","x","i","t"," ","A","p","p","l","i","c","a","t","i","o","n">>
s_User_exited == <<"U","s","e","r"," ","e","x","i","t","e","d"," ","t","h","e"," ","a","p","p","l","i","c","a","t","i","o","n">>
s_User_exited_after_error == <<"U","s","e","r"," ","e","x","i","t","e","d"," ","a","f","t","e","r"," ","e","r","r","o","r">>
s_Error_colon == <<"E","r","r","o","r",":"," ">>
s_Environment_ == <<"E","n","v","i","r","o","n","m","e","n","t"," ">>
s_deleted_successfully == <<" ","d","e","l","e","t","e","d"," ","s","u","c","c","e","s","s","f","u","l","l","y",".">>
s_Failed_to_delete_environment == <<"F","a","i","l","e","d"," ","t","o"," ","d","e","l","e","t","e"," ","e","n","v","i","r","o","n","m","e","n","t"," ">>
s_colon_space == <<":"," ">>
s_Login_link_generated == <<"L","o","g","i","n"," ","l","i","n","k"," ","g","e","n","e","r","a","t","e","d"," ","s","u","c","c","e","s","s","f","u","l","l","y",".">>
s_Failed_to_generate_login_link == <<"F","a","i","l","e","d"," ","t","o"," ","g","e","n","e","r","a","t","e"," ","l","o","g","i","n"," ","l","i","n","k",":"," ">>
s_Cache_cleared == <<"C","a","c","h","e"," ","c","l","e","a","r","e","d"," ","s","u","c","c","e","s","s","f","u","l","l","y",".">>
s_Failed_to_clear_cache == <<"F","a","i","l","e","d"," ","t","o"," ","c","l","e","a","r"," ","c","a","c","h","e",":"," ">>
s_Found_ == <<"F","o","u","n","d"," ">>
s_branches_dot == <<" ","b","r","a","n","c","h","e","s",".">>
s_Failed_to_fetch_branches == <<"F","a","i","l","e","d"," ","t","o"," ","f","e","t","c","h"," ","b","r","a","n","c","h","e","s",":"," ">>
s_Deployment_initiated == <<"D","e","p","l","o","y","m","e","n","t"," ","i","n","i","t","i","a","t","e","d"," ","s","u","c","c","e","s","s","f","u","l","l","y",".">>
s_Failed_to_deploy_branch == <<"F","a","i","l","e","d"," ","t","o"," ","d","e","p","l","o","y"," ","b","r","a","n","c","h",":"," ">>
s_Read_Config == <<"R","e","a","d"," ","C","o","n","f","i","g">>
s_LAGOON_CONFIG_PATH == <<"~","/",".","l","a","g","o","o","n",".","y","m","l">>
s_Failed_to_read_config == <<"F","a","i","l","e","d"," ","t","o"," ","r","e","a","d"," ","L","a","g","o","o","n"," ","c","o","n","f","i","g","u","r","a","t","i","o","n",":"," ">>
s_Lagoon_instance_quote == <<"L","a","g","o","o","n"," ","i","n","s","t","a","n","c","e"," ","\"">>
s_not_found_in_configuration == <<"\""," ","n","o","t"," ","f","o","u","n","d"," ","i","n"," ","c","o","n","f","i","g","u","r","a","t","i","o","n">>
s_List_SSH_Keys == <<"L","i","s","t"," ","S","S","H"," ","K","e","y","s">>
s_ssh_dir == <<"~","/",".","s","s","h">>
s_Failed_to_list_keys == <<"F","a","i","l","e","d"," ","t","o"," ","l","i","s","t"," ","S","S","H"," ","k","e","y","s",":"," ">>
s_Write_Config == <<"W","r","i","t","e"," ","C","o","n","f","i","g">>
s_Successfully_updated == <<"S","u","c","c","e","s","s","f","u","l","l","y"," ","u","p","d","a","t","e","d"," ","L","a","g","o","o","n"," ","c","o","n","f","i","g","u","r","a","t","i","o","n">>
s_Failed_to_write_config == <<"F","a","i","l","e","d"," ","t","o"," ","w","r","i","t","e"," ","L","a","g","o","o","n"," ","c","o","n","f","i","g","u","r","a","t","i","o","n",":"," ">>
s_Error_configuring == <<"E","r","r","o","r"," ","c","o","n","f","i","g","u","r","i","n","g"," ","S","S","H"," ","k","e","y",":"," ">>
s_Refresh_Token_for == <<"R","e","f","r","e","s","h"," ","T","o","k","e","n"," ","f","o","r"," ">>
s_lagoon_dash_l == <<"l","a","g","o","o","n"," ","-","l"," ">>
s_space_login == <<" ","l","o","g","i","n">>
s_Error_refreshing == <<"E","r","r","o","r"," ","r","e","f","r","e","s","h","i","n","g"," ","t","o","k","e","n",":"," ">>
s_ENOENT == <<"E","N","O","E","N","T",":"," ","n","o"," ","s","u","c","h"," ","f","i","l","e"," ","o","r"," ","d","i","r","e","c","t","o","r","y">>
s_EACCES == <<"E","A","C","C","E","S",":"," ","p","e","r","m","i","s","s","i","o","n"," ","d","e","n","i","e","d">>
s_id_rsa == <<"/","h","o","m","e","/","u","s","e","r","/",".","s","s","h","/","i","d","_","r","s","a">>
s_id_ed25519 == <<"/","h","o","m","e","/","u","s","e","r","/",".","s","s","h","/","i","d","_","e","d","2","5","5","1","9">>
s_known_hosts == <<"k","n","o","w","n","_","h","o","s","t","s">>
s_id_rsa_pub == <<"i","d","_","r","s","a",".","p","u","b">>

selVars == <<currentInstance, currentProject, currentProjectDetails, githubBaseUrl, exit>>

\* a step that starts no process
Stay == UNCHANGED <<call, ret>> /\ UNCHANGED execVars /\ UNCHANGED cmdVars

\* a function of the session returns `value` without starting a process
Return(value) ==
    /\ ret' = Returned(value)
    /\ UNCHANGED call
    /\ UNCHANGED execVars
    /\ UNCHANGED cmdVars

\* logAction(action, 'N/A', result) and logError(action, command, error) of logger.mjs
Log(action, result) == [fn |-> "logAction", action |-> action, command |-> s_NA, result |-> result]

LogErr(action, command, error) == [fn |-> "logError", action |-> action, command |-> command, error |-> error]

Report(via, text) == [via |-> via, text |-> text]

\* gitUrlToGithubUrl(gitUrl)
gitUrlToGithubUrl(gitUrl) ==
    IF ~Truthy(gitUrl) THEN Null
    ELSE IF startsWith(gitUrl, s_git_at_github)
    THEN s_https_github \o replace(replace(gitUrl, s_git_at_github, <<>>), s_dot_git, <<>>)
    ELSE IF includes(gitUrl, s_github_com) THEN replace(gitUrl, s_dot_git, <<>>)
    ELSE Null

\* A variant in which an error that reaches the loop ends the session.
Caught_endsSession(error) ==
    /\ pc' = "end"
    /\ reports' = Append(reports, Report("console.error", s_Error_colon \o error.message))

\* the catch of the loop: console.error(`Error: ${error.message}`), then the confirm prompt
Caught(error) ==
    /\ pc' = "caught"
    /\ reports' = Append(reports, Report("console.error", s_Error_colon \o error.message))

\* while (!exit) { try { if (!currentInstance) ...; if (!currentProject) ...; showMainMenu
LoopTop ==
    /\ pc = "loopTop"
    /\ IF exit
       THEN pc' = "end" /\ Stay
       ELSE IF ~Truthy(currentInstance)
       THEN ApiStart(getLagoonInstancesBegin,
                     Call("getLagoonInstances", "instancesLoaded", <<>>, <<>>, <<>>))
       ELSE IF ~Truthy(currentProject)
       THEN ApiStart(getProjectsBegin(currentInstance),
                     Call("getProjectsWithDetails", "projectsLoaded", currentInstance, <<>>, <<>>))
       ELSE pc' = "menu" /\ Stay
    /\ UNCHANGED sessionVars

\* selectLagoonInstance, from the outcome of getLagoonInstances to the select prompt
InstancesLoaded ==
    /\ pc = "instancesLoaded"
    /\ Stay
    /\ IF ret.status = "thrown"
       THEN Caught(ret.error) /\ UNCHANGED locals
       ELSE /\ pc' = "selectInstance"
            /\ locals' = [NoLocals EXCEPT !.flow = "selectInstance", !.choices = ret.value]
            /\ UNCHANGED reports
    /\ UNCHANGED <<selVars, sessionLog, lagoonConfig>>

\* the user picks an instance; the loop goes on to the project
SelectInstance ==
    /\ pc = "selectInstance"
    /\ \E i \in 1..Len(locals.choices) :
          LET instance == locals.choices[i] IN
          /\ currentInstance' = instance
          /\ sessionLog' = Append(sessionLog,
                                  Log(s_Select_Instance, s_Selected_instance \o ToStr(instance)))
          /\ IF ~Truthy(currentProject)
             THEN ApiStart(getProjectsBegin(instance),
                           Call("getProjectsWithDetails", "projectsLoaded", instance, <<>>, <<>>))
             ELSE pc' = "menu" /\ Stay
    /\ UNCHANGED <<currentProject, currentProjectDetails, githubBaseUrl, exit,
                   locals, reports, lagoonConfig>>

\* selectProjectWithDetails, from the outcome of getProjectsWithDetails to the search prompt
ProjectsLoaded ==
    /\ pc = "projectsLoaded"
    /\ Stay
    /\ IF ret.status = "thrown"
       THEN Caught(ret.error) /\ UNCHANGED locals
       ELSE IF ret.value = Undefined
       THEN Caught(TypeErrorUndefinedMap) /\ UNCHANGED locals
       ELSE /\ pc' = "selectProject"
            /\ locals' = [NoLocals EXCEPT !.flow = "selectProject", !.choices = ret.value]
            /\ UNCHANGED reports
    /\ UNCHANGED <<selVars, sessionLog, lagoonConfig>>

\* projectsWithDetails.find(p => p.projectname === project)
findProject(projectsWithDetails, project) ==
    LET hits == {i \in 1..Len(projectsWithDetails) : projectsWithDetails[i].projectname = project}
    IN projectsWithDetails[CHOOSE i \in hits : \A j \in hits : i <= j]

\* the user picks a project; its details and GitHub URL are set; the menu is shown
SelectProject ==
    /\ pc = "selectProject"
    /\ \E i \in 1..Len(locals.choices) :
          LET project == locals.choices[i].projectname
              projectDetails == findProject(locals.choices, project)
          IN /\ currentProject' = project
             /\ currentProjectDetails' = projectDetails
             /\ sessionLog' = Append(sessionLog,
                                     Log(s_Select_Project, s_Selected_project \o ToStr(project)))
             /\ githubBaseUrl' = IF Truthy(projectDetails.giturl)
                                 THEN gitUrlToGithubUrl(projectDetails.giturl)
                                 ELSE githubBaseUrl
    /\ pc' = "menu"
    /\ Stay
    /\ UNCHANGED <<currentInstance, exit, locals, reports, lagoonConfig>>

\* logAction('Menu Selection', 'N/A', `Selected action: ${action}`)
MenuLog(action) == Log(s_Menu_Selection, s_Selected_action \o action)

\* the flows that begin with getEnvironments(instance, project)
FlowEnvironments(action, cont) ==
    /\ pc = "menu"
    /\ sessionLog' = Append(sessionLog, MenuLog(action))
    /\ ApiStart(getEnvironmentsBegin(currentInstance, currentProject),
                Call("getEnvironments", cont, currentInstance, currentProject, <<>>))
    /\ UNCHANGED <<selVars, locals, reports, lagoonConfig>>

MenuListEnvironments == FlowEnvironments(s_listEnvironments, "listed")

MenuListUsers ==
    /\ pc = "menu"
    /\ sessionLog' = Append(sessionLog, MenuLog(s_listUsers))
    /\ ApiStart(getUsersBegin(currentInstance, currentProject),
                Call("getUsers", "listed", currentInstance, currentProject, <<>>))
    /\ UNCHANGED <<selVars, locals, reports, lagoonConfig>>

\* listEnvironments and listUsers after their await: the list is printed, or the error propagates
Listed ==
    /\ pc = "listed"
    /\ Stay
    /\ IF ret.status = "thrown"
       THEN Caught(ret.error)
       ELSE pc' = "pressEnter" /\ UNCHANGED reports
    /\ UNCHANGED <<selVars, locals, sessionLog, lagoonConfig>>

\* await input({ message: 'Press Enter to continue...' }): the flow returns
PressEnter ==
    /\ pc = "pressEnter"
    /\ pc' = "iterEnd"
    /\ Stay
    /\ UNCHANGED sessionVars

\* A variant that leaves the GitHub base URL of the project that is left.
MenuChangeProject_keepsUrl ==
    /\ pc = "menu"
    /\ currentProject' = Null
    /\ currentProjectDetails' = NullDetails
    /\ sessionLog' = Append(Append(sessionLog, MenuLog(s_changeProject)),
                            Log(s_Change_Project, s_Project_selection_reset))
    /\ pc' = "iterEnd"
    /\ Stay
    /\ UNCHANGED <<currentInstance, githubBaseUrl, exit, locals, reports, lagoonConfig>>

MenuChangeProject ==
    /\ pc = "menu"
    /\ currentProject' = Null
    /\ currentProjectDetails' = NullDetails
    /\ githubBaseUrl' = Null
    /\ sessionLog' = Append(Append(sessionLog, MenuLog(s_changeProject)),
                            Log(s_Change_Project, s_Project_selection_reset))
    /\ pc' = "iterEnd"
    /\ Stay
    /\ UNCHANGED <<currentInstance, exit, locals, reports, lagoonConfig>>

\* A variant that keeps the project of the instance that is left.
MenuChangeInstance_keepsProject ==
    /\ pc = "menu"
    /\ currentInstance' = Null
    /\ githubBaseUrl' = Null
    /\ sessionLog' = Append(Append(sessionLog, MenuLog(s_changeInstance)),
                            Log(s_Change_Instance, s_Instance_selection_reset))
    /\ pc' = "iterEnd"
    /\ Stay
    /\ UNCHANGED <<currentProject, currentProjectDetails, exit, locals, reports, lagoonConfig>>

MenuChangeInstance ==
    /\ pc = "menu"
    /\ currentInstance' = Null
    /\ currentProject' = Null
    /\ currentProjectDetails' = NullDetails
    /\ githubBaseUrl' = Null
    /\ sessionLog' = Append(Append(sessionLog, MenuLog(s_changeInstance)),
                            Log(s_Change_Instance, s_Instance_selection_reset))
    /\ pc' = "iterEnd"
    /\ Stay
    /\ UNCHANGED <<exit, locals, reports, lagoonConfig>>

MenuExit ==
    /\ pc = "menu"
    /\ exit' = TRUE
    /\ sessionLog' = Append(Append(sessionLog, MenuLog(s_exit)),
                            Log(s_Exit_Application, s_User_exited))
    /\ pc' = "iterEnd"
    /\ Stay
    /\ UNCHANGED <<currentInstance, currentProject, currentProjectDetails, githubBaseUrl,
                   locals, reports, lagoonConfig>>

\* the confirm prompt of the catch: 'Do you want to continue?'
ContinuePrompt ==
    /\ pc = "caught"
    /\ \E continueSession \in BOOLEAN :
          IF ~continueSession
          THEN /\ exit' = TRUE
               /\ sessionLog' = Append(sessionLog, Log(s_Exit_Application, s_User_exited_after_error))
          ELSE UNCHANGED <<exit, sessionLog>>
    /\ pc' = "iterEnd"
    /\ Stay
    /\ UNCHANGED <<currentInstance, currentProject, currentProjectDetails, githubBaseUrl,
                   locals, reports, lagoonConfig>>

\* the pass of the loop is over; the next one begins
NextIteration ==
    /\ pc = "iterEnd"
    /\ pc' = "loopTop"
    /\ FreshHistories
    /\ call' = NoCall
    /\ ret' = Returned(Undefined)
    /\ locals' = NoLocals
    /\ reports' = <<>>
    /\ sessionLog' = <<>>
    /\ UNCHANGED <<logger, selVars, lagoonConfig>>

\* the flows that list the environments first: the listing failed (the error
\* propagates to the loop's catch), offered nothing to choose from, or is offered
OfferEnvironments(flow, offered, prompt) ==
    /\ Stay
    /\ IF ret.status = "thrown"
       THEN Caught(ret.error) /\ UNCHANGED locals
       ELSE /\ UNCHANGED reports
            /\ IF Len(offered) = 0
               THEN pc' = "pressEnter" /\ locals' = [NoLocals EXCEPT !.flow = flow]
               ELSE pc' = prompt /\ locals' = [NoLocals EXCEPT !.flow = flow, !.choices = offered]
    /\ UNCHANGED <<selVars, sessionLog, lagoonConfig>>

\* deleteEnvironmentFlow(instance, project, githubBaseUrl)
MenuDeleteEnvironment == FlowEnvironments(s_deleteEnvironment, "deleteEnvsLoaded")

\* the filter of deleteEnvironmentFlow
DeleteEligible(env) ==
    /\ env # s_production
    /\ env # s_master
    /\ env # s_develop
    /\ ~startsWith(env, s_project_slash)

DeleteEnvsLoaded ==
    /\ pc = "deleteEnvsLoaded"
    /\ OfferEnvironments("delete",
                         IF ret.status = "thrown" THEN <<>> ELSE SelectSeq(ret.value, DeleteEligible),
                         "selectDelete")

\* the values a checkbox prompt returns: the checked choices, in the order of the choices
RECURSIVE checked(_, _, _)
checked(choices, S, i) ==
    IF i > Len(choices) THEN <<>>
    ELSE (IF i \in S THEN <<choices[i]>> ELSE <<>>) \o checked(choices, S, i + 1)

SelectDelete ==
    /\ pc = "selectDelete"
    /\ Stay
    /\ \E S \in SUBSET (1..Len(locals.choices)) :
          LET selectedEnvironments == checked(locals.choices, S, 1) IN
          IF Len(selectedEnvironments) = 0
          THEN pc' = "iterEnd" /\ UNCHANGED locals
          ELSE pc' = "confirmDelete" /\ locals' = [locals EXCEPT !.selected = selectedEnvironments]
    /\ UNCHANGED <<selVars, reports, sessionLog, lagoonConfig>>

\* one turn of for (const env of selectedEnvironments): await deleteEnvironment(instance, project, env)
StartDelete(i, userConfirm) ==
    /\ ApiStart(deleteEnvironmentBegin(currentInstance, currentProject, locals.selected[i]),
                Call("deleteEnvironment", "deleteSettled",
                     currentInstance, currentProject, locals.selected[i]))
    /\ locals' = [locals EXCEPT !.idx = i, !.confirmed = userConfirm]

\* a plausible slip: every delete is started at once and none is awaited in turn
ConfirmDelete_fanOut ==
    /\ pc = "confirmDelete"
    /\ LET starts == [i \in 1..Len(locals.selected) |->
                         ExecFileCall(deleteEnvironmentBegin(currentInstance, currentProject,
                                                             locals.selected[i]).command)]
       IN /\ spawnLog' = spawnLog \o starts
          /\ running' = running \o starts
    /\ execFrame' = [command |-> deleteEnvironmentBegin(currentInstance, currentProject,
                                                        locals.selected[1]).command,
                     action |-> s_Unknown_Action]
    /\ call' = Call("deleteEnvironment", "deleteSettled",
                    currentInstance, currentProject, locals.selected[1])
    /\ locals' = [locals EXCEPT !.idx = Len(locals.selected)]
    /\ pc' = "awaitProcess"
    /\ UNCHANGED <<logger, consoleOut, logCalls, exited, ret>>
    /\ UNCHANGED <<selVars, reports, sessionLog, lagoonConfig>>
    /\ UNCHANGED cmdVars

\* A variant that starts the deletion whatever the answer.
ConfirmDelete_ignoresAnswer ==
    /\ pc = "confirmDelete"
    /\ \E userConfirm \in BOOLEAN : StartDelete(1, userConfirm)
    /\ UNCHANGED <<selVars, reports, sessionLog, lagoonConfig>>

ConfirmDelete ==
    /\ pc = "confirmDelete"
    /\ \E userConfirm \in BOOLEAN :
          IF userConfirm
          THEN StartDelete(1, userConfirm)
          ELSE pc' = "pressEnter" /\ Stay /\ UNCHANGED locals
    /\ UNCHANGED <<selVars, reports, sessionLog, lagoonConfig>>

\* try { await deleteEnvironment(...); spinner.succeed(...) } catch (error) { spinner.fail(...) }
DeleteReport(env, outcome) ==
    IF outcome.status = "returned"
    THEN Report("spinner.succeed", s_Environment_ \o env \o s_deleted_successfully)
    ELSE Report("spinner.fail",
                s_Failed_to_delete_environment \o env \o s_colon_space \o outcome.error.message)

\* a plausible slip: the first failure ends the loop
DeleteSettled_abortOnFailure ==
    /\ pc = "deleteSettled"
    /\ reports' = Append(reports, DeleteReport(locals.selected[locals.idx], ret))
    /\ IF locals.idx < Len(locals.selected) /\ ret.status = "returned"
       THEN StartDelete(locals.idx + 1, locals.confirmed)
       ELSE pc' = "pressEnter" /\ Stay /\ UNCHANGED locals
    /\ UNCHANGED <<selVars, sessionLog, lagoonConfig>>

\* the delete of one environment has settled: it is reported, and the loop goes on
DeleteSettled ==
    /\ pc = "deleteSettled"
    /\ reports' = Append(reports, DeleteReport(locals.selected[locals.idx], ret))
    /\ IF locals.idx < Len(locals.selected)
       THEN StartDelete(locals.idx + 1, locals.confirmed)
       ELSE pc' = "pressEnter" /\ Stay /\ UNCHANGED locals
    /\ UNCHANGED <<selVars, sessionLog, lagoonConfig>>

\* generateLoginLinkFlow(instance, project, githubBaseUrl)
MenuGenerateLoginLink == FlowEnvironments(s_generateLoginLink, "loginEnvsLoaded")

\* the filter of generateLoginLinkFlow
LoginEligible(env) == env # s_production /\ env # s_master

LoginEnvsLoaded ==
    /\ pc = "loginEnvsLoaded"
    /\ OfferEnvironments("login",
                         IF ret.status = "thrown" THEN <<>> ELSE SelectSeq(ret.value, LoginEligible),
                         "selectLoginEnv")

SelectLoginEnv ==
    /\ pc = "selectLoginEnv"
    /\ \E i \in 1..Len(locals.choices) :
          LET selectedEnvironment == locals.choices[i] IN
          /\ ApiStart(generateLoginLinkBegin(currentInstance, currentProject, selectedEnvironment),
                      Call("generateLoginLink", "loginLinkSettled",
                           currentInstance, currentProject, selectedEnvironment))
          /\ locals' = [locals EXCEPT !.selected = <<selectedEnvironment>>]
    /\ UNCHANGED <<selVars, reports, sessionLog, lagoonConfig>>

\* a flow's single mutation has settled: spinner2.succeed(ok) or spinner2.fail(`${failed}${error.message}`)
SettledReport(at, ok, failed) ==
    /\ pc = at
    /\ reports' = Append(reports,
                         IF ret.status = "returned"
                         THEN Report("spinner.succeed", ok)
                         ELSE Report("spinner.fail", failed \o ret.error.message))
    /\ pc' = "pressEnter"
    /\ Stay
    /\ UNCHANGED <<selVars, locals, sessionLog, lagoonConfig>>

LoginLinkSettled ==
    SettledReport("loginLinkSettled", s_Login_link_generated, s_Failed_to_generate_login_link)

\* clearCacheFlow(instance, project, githubBaseUrl)
MenuClearCache == FlowEnvironments(s_clearCache, "cacheEnvsLoaded")

CacheEnvsLoaded ==
    /\ pc = "cacheEnvsLoaded"
    /\ OfferEnvironments("cache", IF ret.status = "thrown" THEN <<>> ELSE ret.value, "selectCacheEnv")

SelectCacheEnv ==
    /\ pc = "selectCacheEnv"
    /\ \E i \in 1..Len(locals.choices) :
          LET selectedEnvironment == locals.choices[i] IN
          /\ ApiStart(clearDrupalCacheBegin(currentInstance, currentProject, selectedEnvironment),
                      Call("clearDrupalCache", "cacheSettled",
                           currentInstance, currentProject, selectedEnvironment))
          /\ locals' = [locals EXCEPT !.selected = <<selectedEnvironment>>]
    /\ UNCHANGED <<selVars, reports, sessionLog, lagoonConfig>>

CacheSettled ==
    SettledReport("cacheSettled", s_Cache_cleared, s_Failed_to_clear_cache)

\* String(n) for a natural number
RECURSIVE NumStr(_)
NumStr(n) ==
    LET digit == <<"0","1","2","3","4","5","6","7","8","9">>[(n % 10) + 1] IN
    IF n < 10 THEN <<digit>> ELSE NumStr(n \div 10) \o <<digit>>

\* a.localeCompare(b) for names made of the characters a branch may have: the
\* collation puts punctuation first, then the digits, then the letters, a
\* lower-case letter just before its capital; case decides only between names
\* that are otherwise equal
LowerLetters == <<"a","b","c","d","e","f","g","h","i","j","k","l","m","n","o","p","q","r","s","t","u","v","w","x","y","z">>

UpperLetters == <<"A","B","C","D","E","F","G","H","I","J","K","L","M","N","O","P","Q","R","S","T","U","V","W","X","Y","Z">>

CollationOrder == <<"_","-",".","/","0","1","2","3","4","5","6","7","8","9">> \o LowerLetters

IndexIn(seq, ch) ==
    IF \E i \in 1..Len(seq) : seq[i] = ch
    THEN CHOOSE i \in 1..Len(seq) : seq[i] = ch
    ELSE 0

IsUpper(ch) == IndexIn(UpperLetters, ch) # 0

PrimaryWeight(ch) ==
    IF IsUpper(ch) THEN IndexIn(CollationOrder, LowerLetters[IndexIn(UpperLetters, ch)])
    ELSE IndexIn(CollationOrder, ch)

RECURSIVE comparePrimary(_, _)
comparePrimary(a, b) ==
    IF a = <<>> /\ b = <<>> THEN 0
    ELSE IF a = <<>> THEN -1
    ELSE IF b = <<>> THEN 1
    ELSE IF PrimaryWeight(Head(a)) < PrimaryWeight(Head(b)) THEN -1
    ELSE IF PrimaryWeight(Head(a)) > PrimaryWeight(Head(b)) THEN 1
    ELSE comparePrimary(Tail(a), Tail(b))

RECURSIVE compareCase(_, _)
compareCase(a, b) ==
    IF a = <<>> \/ b = <<>> THEN 0
    ELSE IF ~IsUpper(Head(a)) /\ IsUpper(Head(b)) THEN -1
    ELSE IF IsUpper(Head(a)) /\ ~IsUpper(Head(b)) THEN 1
    ELSE compareCase(Tail(a), Tail(b))

localeCompare(a, b) ==
    IF comparePrimary(a, b) # 0 THEN comparePrimary(a, b) ELSE compareCase(a, b)

\* the comparator of deployBranchFlow: main, master, develop first, the rest by localeCompare
BranchPriority == <<s_main, s_master, s_develop>>

\* A variant that orders every branch by localeCompare alone.
compareBranches_noPriority(a, b) == localeCompare(a, b)

compareBranches(a, b) ==
    LET aIndex == IndexIn(BranchPriority, a)
        bIndex == IndexIn(BranchPriority, b)
    IN IF aIndex # 0 /\ bIndex # 0 THEN aIndex - bIndex
       ELSE IF aIndex # 0 THEN -1
       ELSE IF bIndex # 0 THEN 1
       ELSE localeCompare(a, b)

\* branches.sort(comparator): Array.prototype.sort is stable
RECURSIVE insertBranch(_, _)
insertBranch(sorted, x) ==
    IF sorted = <<>> THEN <<x>>
    ELSE IF compareBranches(sorted[Len(sorted)], x) <= 0 THEN Append(sorted, x)
    ELSE Append(insertBranch(SubSeq(sorted, 1, Len(sorted) - 1), x), sorted[Len(sorted)])

RECURSIVE sortBranches(_)
sortBranches(branches) ==
    IF branches = <<>> THEN <<>>
    ELSE insertBranch(sortBranches(SubSeq(branches, 1, Len(branches) - 1)), branches[Len(branches)])

\* deployBranchFlow(instance, project, projectDetails)
MenuDeployBranch ==
    /\ pc = "menu"
    /\ sessionLog' = Append(sessionLog, MenuLog(s_deployBranch))
    /\ IF currentProjectDetails = NullDetails \/ ~Truthy(currentProjectDetails.giturl)
       THEN pc' = "pressEnter" /\ Stay
       ELSE ApiStart(getGitBranchesBegin(currentProjectDetails.giturl),
                     Call("getGitBranches", "branchesLoaded",
                          currentInstance, currentProject, currentProjectDetails.giturl))
    /\ UNCHANGED <<selVars, locals, reports, lagoonConfig>>

BranchesLoaded ==
    /\ pc = "branchesLoaded"
    /\ Stay
    /\ IF ret.status = "thrown"
       THEN /\ reports' = Append(reports, Report("spinner.fail",
                                                 s_Failed_to_fetch_branches \o ret.error.message))
            /\ pc' = "pressEnter"
            /\ locals' = [NoLocals EXCEPT !.flow = "deploy"]
       ELSE /\ reports' = Append(reports, Report("spinner.succeed",
                                                 s_Found_ \o NumStr(Len(ret.value)) \o s_branches_dot))
            /\ IF Len(ret.value) = 0
               THEN pc' = "pressEnter" /\ locals' = [NoLocals EXCEPT !.flow = "deploy"]
               ELSE /\ pc' = "selectBranch"
                    /\ locals' = [NoLocals EXCEPT !.flow = "deploy",
                                                  !.choices = sortBranches(ret.value)]
    /\ UNCHANGED <<selVars, sessionLog, lagoonConfig>>

SelectBranch ==
    /\ pc = "selectBranch"
    /\ \E i \in 1..Len(locals.choices) :
          locals' = [locals EXCEPT !.selected = <<locals.choices[i]>>]
    /\ pc' = "confirmDeploy"
    /\ Stay
    /\ UNCHANGED <<selVars, reports, sessionLog, lagoonConfig>>

ConfirmDeploy ==
    /\ pc = "confirmDeploy"
    /\ \E userConfirm \in BOOLEAN :
          IF userConfirm
          THEN ApiStart(deployBranchBegin(currentInstance, currentProject, locals.selected[1]),
                        Call("deployBranch", "deploySettled",
                             currentInstance, currentProject, locals.selected[1]))
          ELSE pc' = "pressEnter" /\ Stay
    /\ UNCHANGED sessionVars

DeploySettled ==
    SettledReport("deploySettled", s_Deployment_initiated, s_Failed_to_deploy_branch)

\* sshToEnvironmentFlow(instance, project, githubBaseUrl): it prints a command
\* for the user to run and starts no process beyond the listing
MenuSshToEnvironment == FlowEnvironments(s_sshToEnvironment, "sshEnvsLoaded")

SshEnvsLoaded ==
    /\ pc = "sshEnvsLoaded"
    /\ OfferEnvironments("ssh", IF ret.status = "thrown" THEN <<>> ELSE ret.value, "selectSshEnv")

SelectSshEnv ==
    /\ pc = "selectSshEnv"
    /\ \E i \in 1..Len(locals.choices) :
          locals' = [locals EXCEPT !.selected = <<locals.choices[i]>>]
    /\ pc' = "inputContainer"
    /\ Stay
    /\ UNCHANGED <<selVars, reports, sessionLog, lagoonConfig>>

\* the container is entered and the command printed; clipboardy is there or not
InputContainer ==
    /\ pc = "inputContainer"
    /\ \E clipboardy \in BOOLEAN :
          pc' = IF clipboardy THEN "confirmClipboard" ELSE "pressEnter"
    /\ Stay
    /\ UNCHANGED sessionVars

ConfirmClipboard ==
    /\ pc = "confirmClipboard"
    /\ pc' = "pressEnter"
    /\ Stay
    /\ UNCHANGED sessionVars

-----------------------------------------------------------------------------
(* configureSshKey and refreshLagoonToken of lagoon-ssh-key-configurator.mjs *)

FsErrors == {MkError(s_ENOENT), MkError(s_EACCES)}

\* what fs.readdir(~/.ssh) may deliver: an error, no file, or these files
SshDirListings ==
    { [ok |-> FALSE, files |-> <<>>],
      [ok |-> TRUE, files |-> <<>>],
      [ok |-> TRUE, files |-> <<s_id_rsa_pub, s_known_hosts>>],
      [ok |-> TRUE, files |-> <<<<"i","d","_","r","s","a">>, s_id_rsa_pub, s_known_hosts,
                                <<"i","d","_","e","d","2","5","5","1","9">>>>] }

endsWith(s, suffix) ==
    /\ Len(s) >= Len(suffix)
    /\ SubSeq(s, Len(s) - Len(suffix) + 1, Len(s)) = suffix

\* the filter of listSshKeys
IsPrivateKey(file) ==
    /\ ~endsWith(file, <<".","p","u","b">>)
    /\ file # s_known_hosts
    /\ file # <<"a","u","t","h","o","r","i","z","e","d","_","k","e","y","s">>
    /\ file # s_config

\* path.join(sshDir, key), with os.homedir() = /home/user
KeyPath(key) == <<"/","h","o","m","e","/","u","s","e","r","/",".","s","s","h","/">> \o key

\* A variant that takes any readable configuration to hold the instance.
HasInstance_any(config, instanceName) == config.exists

\* config.lagoons && config.lagoons[instanceName]
HasInstance(config, instanceName) ==
    /\ config.hasLagoons
    /\ \E i \in 1..Len(config.lagoons) : config.lagoons[i].name = instanceName

\* config.lagoons[instanceName].sshkey = sshKey
SetSshKey(config, instanceName, sshKey) ==
    [config EXCEPT !.lagoons = [i \in 1..Len(config.lagoons) |->
                                   IF config.lagoons[i].name = instanceName
                                   THEN [config.lagoons[i] EXCEPT !.sshkey = sshKey]
                                   ELSE config.lagoons[i]]]

\* catch (error) { console.error(`Error configuring SSH key: ${error.message}`); return false }
ConfigureFailed(error) == Report("console.error", s_Error_configuring \o error.message)

\* configureSshKey(instanceName) up to its select prompt: the configuration is
\* read, the instance looked up, the keys listed
MenuConfigureUserSshKey ==
    /\ pc = "menu"
    /\ \E listing \in SshDirListings, fsError \in FsErrors :
          LET menu == Append(sessionLog, MenuLog(s_configureUserSshKey))
              sshKeys == map(SelectSeq(listing.files, IsPrivateKey), KeyPath)
          IN IF ~lagoonConfig.exists
             THEN /\ sessionLog' = Append(menu, LogErr(s_Read_Config, s_LAGOON_CONFIG_PATH, fsError))
                  /\ reports' = Append(reports, ConfigureFailed(Wrap(s_Failed_to_read_config, fsError)))
                  /\ Return(FALSE)
                  /\ pc' = "iterEnd"
                  /\ UNCHANGED locals
             ELSE IF ~HasInstance(lagoonConfig, currentInstance)
             THEN /\ sessionLog' = menu
                  /\ reports' = Append(reports,
                        ConfigureFailed(MkError(s_Lagoon_instance_quote \o ToStr(currentInstance)
                                                \o s_not_found_in_configuration)))
                  /\ Return(FALSE)
                  /\ pc' = "iterEnd"
                  /\ UNCHANGED locals
             ELSE IF ~listing.ok
             THEN /\ sessionLog' = Append(menu, LogErr(s_List_SSH_Keys, s_ssh_dir, fsError))
                  /\ reports' = Append(reports, ConfigureFailed(Wrap(s_Failed_to_list_keys, fsError)))
                  /\ Return(FALSE)
                  /\ pc' = "iterEnd"
                  /\ UNCHANGED locals
             ELSE IF Len(sshKeys) = 0
             THEN /\ sessionLog' = menu
                  /\ Return(FALSE)
                  /\ pc' = "iterEnd"
                  /\ UNCHANGED <<reports, locals>>
             ELSE /\ sessionLog' = menu
                  /\ locals' = [NoLocals EXCEPT !.flow = "configureSshKey",
                                                !.choices = Append(sshKeys, Null)]
                  /\ Stay
                  /\ pc' = "selectSshKey"
                  /\ UNCHANGED reports
    /\ UNCHANGED <<selVars, lagoonConfig>>

\* refreshLagoonToken(instanceName): the command is one interpolated string,
\* `lagoon -l ${instanceName} login`, handed to execLagoonCommand
RefreshCommandLine(instanceName) == s_lagoon_dash_l \o ToStr(instanceName) \o s_space_login

\* the user picks a key or Cancel; the configuration is written; the token is refreshed
SelectSshKey ==
    /\ pc = "selectSshKey"
    /\ \E i \in 1..Len(locals.choices), written \in BOOLEAN, fsError \in FsErrors :
          LET sshKey == locals.choices[i] IN
          IF ~Truthy(sshKey)
          THEN /\ pc' = "iterEnd"
               /\ Return(FALSE)
               /\ UNCHANGED <<locals, reports, sessionLog, lagoonConfig>>
          ELSE IF ~written
          THEN /\ sessionLog' = Append(sessionLog, LogErr(s_Write_Config, s_LAGOON_CONFIG_PATH, fsError))
               /\ reports' = Append(reports, ConfigureFailed(Wrap(s_Failed_to_write_config, fsError)))
               /\ pc' = "iterEnd"
               /\ Return(FALSE)
               /\ UNCHANGED <<locals, lagoonConfig>>
          ELSE /\ lagoonConfig' = SetSshKey(lagoonConfig, currentInstance, sshKey)
               /\ sessionLog' = Append(sessionLog,
                                       [fn |-> "logAction", action |-> s_Write_Config,
                                        command |-> s_LAGOON_CONFIG_PATH,
                                        result |-> s_Successfully_updated])
               /\ locals' = [locals EXCEPT !.selected = <<sshKey>>]
               /\ execLagoonCommandStart(RefreshCommandLine(currentInstance),
                                         s_Refresh_Token_for \o ToStr(currentInstance))
               /\ call' = Call("refreshLagoonToken", "tokenRefreshed", currentInstance, <<>>, <<>>)
               /\ pc' = "awaitProcess"
               /\ UNCHANGED <<ret, reports>>
    /\ UNCHANGED selVars

\* A variant in which configureSshKey returns what became of the token refresh.
TokenRefreshed_returnsOutcome ==
    /\ pc = "tokenRefreshed"
    /\ IF ret.status = "thrown"
       THEN reports' = Append(reports, Report("console.error", s_Error_refreshing \o ret.error.message))
       ELSE UNCHANGED reports
    /\ pc' = "iterEnd"
    /\ Return(ret.status = "returned")
    /\ UNCHANGED <<selVars, locals, sessionLog, lagoonConfig>>

\* refreshLagoonToken after its await: it reports and swallows a failure;
\* configureSshKey returns true either way
TokenRefreshed ==
    /\ pc = "tokenRefreshed"
    /\ IF ret.status = "thrown"
       THEN reports' = Append(reports, Report("console.error", s_Error_refreshing \o ret.error.message))
       ELSE UNCHANGED reports
    /\ pc' = "iterEnd"
    /\ Return(TRUE)
    /\ UNCHANGED <<selVars, locals, sessionLog, lagoonConfig>>

-----------------------------------------------------------------------------
(* The session as a whole.                                                 *)

ConfigFiles ==
    { NoConfigFile,
      [exists |-> TRUE, hasLagoons |-> FALSE, lagoons |-> <<>>],
      [exists |-> TRUE, hasLagoons |-> TRUE,
       lagoons |-> << [name |-> s_amazeeio, sshkey |-> <<>>] >>] }

Init ==
    /\ logger = ModuleLogger
    /\ pc = "loopTop"
    /\ call = NoCall
    /\ execFrame = NoFrame
    /\ running = <<>>
    /\ spawnLog = <<>>
    /\ consoleOut = <<>>
    /\ logCalls = <<>>
    /\ exited = <<>>
    /\ ret = Returned(Undefined)
    /\ currentInstance = Null
    /\ currentProject = Null
    /\ currentProjectDetails = NullDetails
    /\ githubBaseUrl = Null
    /\ exit = FALSE
    /\ locals = NoLocals
    /\ reports = <<>>
    /\ sessionLog = <<>>
    /\ lagoonConfig \in ConfigFiles
    /\ NoBuilder

Next ==
    \/ LoopTop
    \/ InstancesLoaded
    \/ SelectInstance
    \/ ProjectsLoaded
    \/ SelectProject
    \/ MenuListEnvironments
    \/ MenuListUsers
    \/ Listed
    \/ MenuDeleteEnvironment
    \/ DeleteEnvsLoaded
    \/ SelectDelete
    \/ ConfirmDelete
    \/ DeleteSettled
    \/ MenuGenerateLoginLink
    \/ LoginEnvsLoaded
    \/ SelectLoginEnv
    \/ LoginLinkSettled
    \/ MenuClearCache
    \/ CacheEnvsLoaded
    \/ SelectCacheEnv
    \/ CacheSettled
    \/ MenuDeployBranch
    \/ BranchesLoaded
    \/ SelectBranch
    \/ ConfirmDeploy
    \/ DeploySettled
    \/ MenuSshToEnvironment
    \/ SshEnvsLoaded
    \/ SelectSshEnv
    \/ InputContainer
    \/ ConfirmClipboard
    \/ MenuConfigureUserSshKey
    \/ SelectSshKey
    \/ TokenRefreshed
    \/ MenuChangeProject
    \/ MenuChangeInstance
    \/ MenuExit
    \/ PressEnter
    \/ ContinuePrompt
    \/ NextIteration
    \/ ProcessCompletes

Spec == Init /\ [][Next]_vars

-----------------------------------------------------------------------------
(* The command builders called step by step, as the tests of LagoonCommand *)
(* and GitCommand do: every configurator mutates the object it is called   *)
(* on and returns `this`.                                                   *)

MaxChain == 3

\* what a caller passes to a parameterized configurator
CmdValues == { <<>>, Null, Undefined, <<"a">>, <<"b">> }

LagoonPlain ==
    {"withJsonOutput", "withForce", "listConfigs", "listProjects", "listEnvironments", "listUsers", "login"}

LagoonParam ==
    {"withInstance", "withProject", "withEnvironment", "deleteEnvironment", "deployBranch", "ssh"}

\* command.<method>(value): the object after the call
Configure(cmd, method, value) ==
    CASE method = "withInstance" -> withInstance(cmd, value)
      [] method = "withProject" -> withProject(cmd, value)
      [] method = "withEnvironment" -> withEnvironment(cmd, value)
      [] method = "withJsonOutput" -> withJsonOutput(cmd)
      [] method = "withForce" -> withForce(cmd)
      [] method = "listConfigs" -> listConfigs(cmd)
      [] method = "listProjects" -> listProjects(cmd)
      [] method = "listEnvironments" -> listEnvironments(cmd)
      [] method = "listUsers" -> listUsers(cmd)
      [] method = "deleteEnvironment" -> cmdDeleteEnvironment(cmd, value)
      [] method = "deployBranch" -> cmdDeployBranch(cmd, value)
      [] method = "login" -> login(cmd)
      [] method = "ssh" -> ssh(cmd, value)
      [] method = "lsRemote" -> lsRemote(cmd, value)

\* this.<method>(value) { ...; return this; }
Invoke(this, method, value) ==
    /\ commands' = [commands EXCEPT ![this] = Configure(@, method, value)]
    /\ chain' = Append(chain, [this |-> this, method |-> method, value |-> value,
                               before |-> commands[this].args, returned |-> this])
    /\ ret' = Returned(this)

CmdLagoonCall ==
    /\ pc = "build"
    /\ Len(chain) < MaxChain
    /\ \E method \in LagoonPlain \cup LagoonParam, value \in CmdValues :
          /\ method \in LagoonPlain => value = Undefined
          /\ Invoke(RefLagoon, method, value)
    /\ UNCHANGED <<pc, call>>
    /\ UNCHANGED execVars
    /\ UNCHANGED sessionVars

CmdGitCall ==
    /\ pc = "build"
    /\ Len(chain) < MaxChain
    /\ \E gitUrl \in CmdValues : Invoke(RefGit, "lsRemote", gitUrl)
    /\ UNCHANGED <<pc, call>>
    /\ UNCHANGED execVars
    /\ UNCHANGED sessionVars

\* beforeEach(() => { command = new LagoonCommand(); }) and its GitCommand twin
CmdNew ==
    /\ pc = "build"
    /\ chain # <<>>
    /\ commands' = NewCommands
    /\ chain' = <<>>
    /\ ret' = Returned(Undefined)
    /\ UNCHANGED <<pc, call>>
    /\ UNCHANGED execVars
    /\ UNCHANGED sessionVars

InitCmd ==
    /\ SessionIdle
    /\ logger = ModuleLogger
    /\ pc = "build"
    /\ call = NoCall
    /\ execFrame = NoFrame
    /\ running = <<>>
    /\ spawnLog = <<>>
    /\ consoleOut = <<>>
    /\ logCalls = <<>>
    /\ exited = <<>>
    /\ ret = Returned(Undefined)

NextCmd == CmdLagoonCall \/ CmdGitCall \/ CmdNew

SpecCmd == InitCmd /\ [][NextCmd]_vars

-----------------------------------------------------------------------------
(* The helper functions of lagoon-api.mjs called directly, as              *)
(* helpers.test.mjs does.                                                  *)

\* extractPrNumber without the ^ of the pattern: /pr-(\d+)$/i
extractPrNumber_unanchored(environmentName) ==
    IF ~Truthy(environmentName) THEN Null
    ELSE LET s == environmentName
             n == Len(s)
             starts == {i \in 1..n :
                           /\ i + 3 <= n
                           /\ s[i] \in {"p", "P"}
                           /\ s[i + 1] \in {"r", "R"}
                           /\ s[i + 2] = "-"
                           /\ \A k \in (i + 3)..n : s[k] \in Digits}
         IN IF starts = {} THEN Null
            ELSE LET i == CHOOSE i \in starts : \A j \in starts : i <= j
                 IN SubSeq(s, i + 3, n)

\* extractPrNumber(environmentName): environmentName.match(/^pr-(\d+)$/i), match[1] or null
extractPrNumber(environmentName) ==
    IF ~Truthy(environmentName) THEN Null
    ELSE LET s == environmentName
             n == Len(s)
         IN IF /\ n >= 4
               /\ s[1] \in {"p", "P"}
               /\ s[2] \in {"r", "R"}
               /\ s[3] = "-"
               /\ \A k \in 4..n : s[k] \in Digits
            THEN SubSeq(s, 4, n)
            ELSE Null

MaxNameLen == 5

PrAlphabet == {"p", "P", "r", "-", "1", "2", "x"}

\* the environment names given to extractPrNumber
PrNames ==
    UNION {[1..k -> PrAlphabet] : k \in 0..MaxNameLen}
    \cup { Null, Undefined, s_master, s_develop,
           <<"p","r","1","2","3">>,
           <<"f","e","a","t","u","r","e","-","p","r","-","5">>,
           <<"P","R","-","1","2","3">>,
           <<"p","r","-","1","\n">>,
           <<"p","r","-","0","1","2","3","4","5","6","7","8","9">> }

GitUrlHosts ==
    { s_git_at_github,
      s_https_github,
      <<"h","t","t","p","s",":","/","/","w","w","w",".">> \o s_github_com \o <<"/">>,
      <<"s","s","h",":","/","/","g","i","t","@">> \o s_github_com \o <<"/">>,
      <<"g","i","t","@","g","i","t","l","a","b",".","c","o","m",":">>,
      <<"h","t","t","p","s",":","/","/","b","i","t","b","u","c","k","e","t",".","o","r","g","/">> }

GitUrlPaths ==
    { <<"o","r","g","/","r","e","p","o">>,
      <<"u","s","e","r","/","r","e","p","o",".","n","a","m","e">>,
      <<"o","r","g","/","m","y",".","g","i","t","h","u","b",".","i","o">>,
      <<"o","r","g","/","a",".","g","i","t","o","p","s">>,
      <<"o","r","g","/","p","r","o","j","e","c","t","/","r","e","p","o">>,
      <<>> }

GitUrlSuffixes == { s_dot_git, <<>>, s_dot_git \o <<"/">>, s_dot_git \o s_dot_git }

\* the repository URLs given to gitUrlToGithubUrl
GitUrls ==
    {h \o p \o s : h \in GitUrlHosts, p \in GitUrlPaths, s \in GitUrlSuffixes}
    \cup { <<>>, Null, Undefined }

HelperExtractPrNumber ==
    /\ pc = "helper"
    /\ \E name \in PrNames :
          /\ call' = Call("extractPrNumber", "helperDone", <<>>, <<>>, name)
          /\ ret' = Returned(extractPrNumber(name))
    /\ pc' = "helperDone"
    /\ UNCHANGED execVars
    /\ UNCHANGED sessionVars
    /\ UNCHANGED cmdVars

HelperGitUrlToGithubUrl ==
    /\ pc = "helper"
    /\ \E gitUrl \in GitUrls :
          /\ call' = Call("gitUrlToGithubUrl", "helperDone", <<>>, <<>>, gitUrl)
          /\ ret' = Returned(gitUrlToGithubUrl(gitUrl))
    /\ pc' = "helperDone"
    /\ UNCHANGED execVars
    /\ UNCHANGED sessionVars
    /\ UNCHANGED cmdVars

\* the next test
HelperReset ==
    /\ pc = "helperDone"
    /\ pc' = "helper"
    /\ call' = NoCall
    /\ ret' = Returned(Undefined)
    /\ UNCHANGED execVars
    /\ UNCHANGED sessionVars
    /\ UNCHANGED cmdVars

InitHelpers ==
    /\ SessionIdle
    /\ logger = ModuleLogger
    /\ pc = "helper"
    /\ call = NoCall
    /\ execFrame = NoFrame
    /\ running = <<>>
    /\ spawnLog = <<>>
    /\ consoleOut = <<>>
    /\ logCalls = <<>>
    /\ exited = <<>>
    /\ ret = Returned(Undefined)

NextHelpers == HelperExtractPrNumber \/ HelperGitUrlToGithubUrl \/ HelperReset

SpecHelpers == InitHelpers /\ [][NextHelpers]_vars

-----------------------------------------------------------------------------
(* Properties of the executor, checked under SpecExec.                     *)

LogActionUsable == logger.kind = "object" /\ logger.logAction = "function"

LogErrorUsable == logger.kind = "object" /\ logger.logError = "function"

ExecuteCalled == pc \in {"awaitProcess", "testDone"}

\* C1: one call of execute(command, action) starts exactly one process, whose
\* executable is command.getBaseCommand() and whose argument vector is
\* command.getArgs(), element for element; the display string command.toString()
\* goes to the console line (and the log) only and is never what is executed.
C1_ExecuteSpawnsArgvOnce ==
    ExecuteCalled =>
        /\ Len(spawnLog) = 1
        /\ spawnLog[1].api = "execFile"
        /\ spawnLog[1].file = execFrame.command.baseCommand
        /\ spawnLog[1].args = execFrame.command.args
        /\ spawnLog[1].file # toString(execFrame.command)
        /\ \A i \in 1..Len(spawnLog[1].args) :
              spawnLog[1].args[i] = execFrame.command.args[i]
        /\ consoleOut = << s_Executing \o toString(execFrame.command) >>
        /\ Len(running) = (IF pc = "awaitProcess" THEN 1 ELSE 0)

C1_Witness ==
    /\ pc = "testDone"
    /\ spawnLog = << [api |-> "execFile", file |-> s_lagoon,
                      args |-> <<s_dash_l, s_amazeeio, s_dash_p, s_test_project,
                                 s_list, s_environments, s_output_json>>] >>

\* C8: when the process succeeds, execute returns the process's {stdout, stderr}
\* unchanged, makes no logger call before the process has completed, calls
\* logAction exactly once with (action, display string, 'Success') when the
\* logger has it, and never calls logError.
C8_SuccessReturnsResultAndLogsAction ==
    /\ (pc = "awaitProcess" => logCalls = <<>>)
    /\ (pc = "testDone" /\ exited[1].ok) =>
          /\ ret.status = "returned"
          /\ ret.value = exited[1].result
          /\ \A i \in 1..Len(logCalls) : logCalls[i].fn # "logError"
          /\ LogActionUsable =>
                logCalls = << [fn |-> "logAction", action |-> execFrame.action,
                               command |-> toString(execFrame.command),
                               result |-> s_Success] >>

C8_Witness ==
    /\ pc = "testDone"
    /\ exited[1].ok
    /\ LogActionUsable
    /\ execFrame.action = s_Test_Action
    /\ ret = Returned([stdout |-> TextOut(s_mock_stdout), stderr |-> <<>>])
    /\ Len(logCalls) = 1

\* C9: when the process fails, execute calls logError exactly once with
\* (action, display string, the error) when the logger has it, never calls
\* logAction, and throws that same error: it never returns normally.
C9_FailureLogsErrorAndRethrows ==
    (pc = "testDone" /\ ~exited[1].ok) =>
        /\ ret.status = "thrown"
        /\ ret.error = exited[1].error
        /\ \A i \in 1..Len(logCalls) : logCalls[i].fn # "logAction"
        /\ LogErrorUsable =>
              logCalls = << [fn |-> "logError", action |-> execFrame.action,
                             command |-> toString(execFrame.command),
                             error |-> exited[1].error] >>

C9_Witness ==
    /\ pc = "testDone"
    /\ ~exited[1].ok
    /\ LogErrorUsable
    /\ ret = Thrown([kind |-> "exit", message |-> s_Command_failed])
    /\ Len(logCalls) = 1

\* C10: the outcome of execute is decided by the process alone, whatever the
\* logger: with a logger that is null or undefined, or whose logAction (on
\* success) or logError (on failure) is not a function, no logger call is
\* made, and no error other than the process's own is raised.
C10_OutcomeIndependentOfLogger ==
    pc = "testDone" =>
        /\ exited[1].ok <=> ret.status = "returned"
        /\ ret.status = "thrown" => ret.error \in ExecErrors
        /\ (exited[1].ok /\ ~LogActionUsable) => logCalls = <<>>
        /\ (~exited[1].ok /\ ~LogErrorUsable) => logCalls = <<>>

C10_Witness ==
    /\ pc = "testDone"
    /\ logger.kind = "null"
    /\ ~exited[1].ok
    /\ ret.status = "thrown"
    /\ logCalls = <<>>

-----------------------------------------------------------------------------
(* Properties of the API operations, checked under SpecApi.                *)

s_Cannot_delete == <<"C","a","n","n","o","t"," ","d","e","l","e","t","e"," ","p","r","o","t","e","c","t","e","d"," ","e","n","v","i","r","o","n","m","e","n","t">>

s_Cannot_generate == <<"C","a","n","n","o","t"," ","g","e","n","e","r","a","t","e"," ","l","o","g","i","n"," ","l","i","n","k"," ","f","o","r"," ","p","r","o","t","e","c","t","e","d"," ","e","n","v","i","r","o","n","m","e","n","t">>

\* the operation threw before a command was built: nothing printed, nothing started
RejectedBeforeSpawn ==
    /\ pc = "apiDone"
    /\ ret.status = "thrown"
    /\ spawnLog = <<>>
    /\ consoleOut = <<>>
    /\ exited = <<>>

\* the one process the operation started, if it started exactly one
OneProcess(args) ==
    spawnLog = << [api |-> "execFile", file |-> s_lagoon, args |-> args] >>

DeleteArgs(c) ==
    <<s_dash_l, c.instance, s_dash_p, c.project,
      s_delete, s_environment, s_dd_environment, c.target, s_force, s_output_json>>

\* the protected names as the statement lists them
StatedDeletionProtected(e) ==
    \/ e \in {s_production, s_master, s_develop}
    \/ (Len(e) >= 8 /\ SubSeq(e, 1, 8) = <<"p","r","o","j","e","c","t","/">>)

StatedLoginLinkProtected(e) == e \in {s_production, s_master}

\* C3, as stated: deleteEnvironment raises 'Cannot delete protected environment',
\* with no command built and no process started, if and only if the name is
\* 'production', 'master', 'develop' or starts with 'project/'; for every other
\* name exactly one delete command for that name is executed.
C3_AsStated ==
    call.op = "deleteEnvironment" =>
        IF StatedDeletionProtected(call.target)
        THEN /\ RejectedBeforeSpawn
             /\ startsWith(ret.error.message, s_Cannot_delete)
        ELSE OneProcess(DeleteArgs(call))

\* C3, amended: the guard is as stated for every name; every other NON-EMPTY
\* name leads to exactly one delete command for that name; the empty name is
\* not protected and starts one process whose arguments name no delete at all.
C3_DeleteGuardAndCommand ==
    call.op = "deleteEnvironment" =>
        IF StatedDeletionProtected(call.target)
        THEN /\ RejectedBeforeSpawn
             /\ startsWith(ret.error.message, s_Cannot_delete)
        ELSE /\ (ret.status = "thrown" => ~startsWith(ret.error.message, s_Cannot_delete))
             /\ IF call.target # <<>>
                THEN OneProcess(DeleteArgs(call))
                ELSE OneProcess(<<s_dash_l, call.instance, s_dash_p, call.project,
                                  s_force, s_output_json>>)

C3_Witness ==
    /\ pc = "apiDone"
    /\ call.op = "deleteEnvironment"
    /\ call.target = s_pr_1
    /\ ret.status = "returned"
    /\ Len(exited) = 1
    /\ spawnLog[1].args = <<s_dash_l, s_amazeeio, s_dash_p, s_test_project,
                            s_delete, s_environment, s_dd_environment, s_pr_1,
                            s_force, s_output_json>>

\* C4: generateLoginLink raises its validation error, before any process is
\* started, if and only if the name is 'production' or 'master'; every other
\* name, 'develop' and the 'project/' names included, leads to one ssh command;
\* so the login-link protected names are a strict subset of the deletion
\* protected ones.
C4_LoginLinkGuardNarrower ==
    /\ call.op = "generateLoginLink" =>
          IF StatedLoginLinkProtected(call.target)
          THEN /\ RejectedBeforeSpawn
               /\ startsWith(ret.error.message, s_Cannot_generate)
               /\ StatedDeletionProtected(call.target)
          ELSE /\ (ret.status = "thrown" => ~startsWith(ret.error.message, s_Cannot_generate))
               /\ OneProcess(<<s_dash_l, call.instance, s_dash_p, call.project>>
                             \o (IF call.target # <<>> THEN <<s_dash_e, call.target>> ELSE <<>>)
                             \o <<s_ssh, s_dash_C, s_drush_uli>>)
    /\ \A e \in ApiEnvironments : LoginLinkGuard(e) => DeleteGuard(e)
    /\ \E e \in ApiEnvironments : DeleteGuard(e) /\ ~LoginLinkGuard(e)

C4_Witness ==
    /\ pc = "apiDone"
    /\ call.op = "generateLoginLink"
    /\ call.target = s_project_slash_x
    /\ StatedDeletionProtected(call.target)
    /\ ret.status = "returned"
    /\ spawnLog[1].args = <<s_dash_l, s_amazeeio, s_dash_p, s_test_project,
                            s_dash_e, s_project_slash_x, s_ssh, s_dash_C, s_drush_uli>>

\* the character class of the statement
StatedBranchClass ==
    {"a","b","c","d","e","f","g","h","i","j","k","l","m","n","o","p","q","r","s","t","u","v","w","x","y","z",
     "A","B","C","D","E","F","G","H","I","J","K","L","M","N","O","P","Q","R","S","T","U","V","W","X","Y","Z",
     "0","1","2","3","4","5","6","7","8","9","_",".","/","-"}

InClassOnly(b) == Len(b) >= 1 /\ \A i \in 1..Len(b) : b[i] \in StatedBranchClass

\* C5: deployBranch is fail-closed: a branch that is empty or has a character
\* outside [A-Za-z0-9_./-] is rejected with an error before any command is
\* built and before any process is started; whatever follows '--branch' in an
\* executed command is made of characters of that class only.
C5_DeployBranchFailClosed ==
    call.op = "deployBranch" =>
        /\ (call.target # Undefined /\ ~InClassOnly(call.target)) =>
              /\ RejectedBeforeSpawn
              /\ ret.error.message = DeployPrefix(call.target) \o s_Invalid_branch_name
        /\ \A n \in 1..Len(spawnLog) : \A k \in 1..Len(spawnLog[n].args) :
              spawnLog[n].args[k] = s_dd_branch =>
                  /\ k < Len(spawnLog[n].args)
                  /\ InClassOnly(spawnLog[n].args[k + 1])
                  /\ spawnLog[n].args[k + 1] = call.target

C5_Witness ==
    /\ pc = "apiDone"
    /\ call.op = "deployBranch"
    /\ call.target = <<"x",";","r","m">>
    /\ ret.status = "thrown"
    /\ spawnLog = <<>>

-----------------------------------------------------------------------------
(* Properties of the interactive session, checked under Spec.              *)

\* C2: every external process the session starts, the login that refreshes
\* the token after the SSH key was configured included, is started through the
\* executor from a Command Model's executable and argument vector, never from
\* one interpolated shell string.
C2_EveryProcessFromArgumentVector ==
    \A i \in 1..Len(spawnLog) :
        /\ spawnLog[i].api = "execFile"
        /\ spawnLog[i].file \in {s_lagoon, s_git}

\* the deletion was confirmed and the loop over the selection has begun
InDeleteLoop == locals.flow = "delete" /\ locals.idx >= 1

\* the process completion that says the environment was deleted
DeletedOk(completion) ==
    /\ completion.ok
    /\ completion.result.stdout.isJson
    /\ completion.result.stdout.doc.result = s_success

\* C6: once the deletion of the selected environments is confirmed, a delete is
\* attempted for every selected environment exactly once and in the order of
\* the selection, whatever became of the earlier ones; a failure neither skips
\* nor aborts the rest, and every environment gets its own report, a success
\* or a failure according to its own outcome.
C6_DeleteLoopContinuesOnError ==
    InDeleteLoop =>
        LET selected == locals.selected
            started == locals.idx
            before == Len(spawnLog) - started
        IN /\ pc \in {"awaitProcess", "deleteSettled", "pressEnter", "iterEnd"}
           /\ (pc \in {"pressEnter", "iterEnd"} => started = Len(selected))
           /\ before >= 1
           /\ \A i \in 1..before : \A k \in 1..Len(spawnLog[i].args) :
                 spawnLog[i].args[k] # s_delete
           /\ \A i \in 1..started :
                 spawnLog[before + i] =
                     [api |-> "execFile", file |-> s_lagoon,
                      args |-> <<s_dash_l, currentInstance, s_dash_p, currentProject,
                                 s_delete, s_environment, s_dd_environment, selected[i],
                                 s_force, s_output_json>>]
           /\ Len(reports) = (IF pc \in {"awaitProcess", "deleteSettled"}
                              THEN started - 1 ELSE started)
           /\ \A i \in 1..Len(reports) :
                 IF DeletedOk(exited[before + i])
                 THEN /\ reports[i].via = "spinner.succeed"
                      /\ startsWith(reports[i].text, s_Environment_ \o selected[i])
                 ELSE /\ reports[i].via = "spinner.fail"
                      /\ startsWith(reports[i].text,
                                    s_Failed_to_delete_environment \o selected[i] \o s_colon_space)

C6_Witness ==
    /\ pc = "pressEnter"
    /\ InDeleteLoop
    /\ locals.selected = <<s_pr_1, s_pr_2>>
    /\ Len(spawnLog) = 3
    /\ ~exited[2].ok
    /\ DeletedOk(exited[3])
    /\ Len(reports) = 2
    /\ reports[1].via = "spinner.fail"
    /\ reports[2].via = "spinner.succeed"

\* C7: at every point of the session at most one process started by the wrapper
\* is in flight: every process started has completed before the next one is
\* started or the next prompt is shown, and in the deletion loop the delete of
\* one environment has completed before the delete of the next one starts.
C7_AtMostOneProcessInFlight ==
    /\ Len(running) <= 1
    /\ Len(spawnLog) = Len(exited) + Len(running)
    /\ (Len(running) = 1 <=> pc = "awaitProcess")
    /\ (InDeleteLoop /\ pc = "awaitProcess") =>
          /\ running = <<spawnLog[Len(spawnLog)]>>
          /\ running[1].args[8] = locals.selected[locals.idx]
          /\ Len(exited) = Len(spawnLog) - 1

C7_Witness ==
    /\ pc = "awaitProcess"
    /\ InDeleteLoop
    /\ locals.idx = 2
    /\ Len(exited) = 2
    /\ Len(running) = 1
    /\ running[1].args[8] = locals.selected[2]

-----------------------------------------------------------------------------
(* Properties of the command builders, checked under SpecCmd.              *)

FalsyValues == { <<>>, Null, Undefined }

Parameterized == LagoonParam \cup {"lsRemote"}

LastCall == chain[Len(chain)]

\* C11: a parameterized configurator (withInstance, withProject,
\* withEnvironment, deleteEnvironment, deployBranch, ssh, lsRemote) called with
\* '', null or undefined leaves the argument list of the object exactly as it
\* was, whatever it held, and returns the object it was called on.
C11_FalsyConfiguratorIsNoOp ==
    (chain # <<>> /\ LastCall.method \in Parameterized /\ LastCall.value \in FalsyValues) =>
        /\ commands[LastCall.this].args = LastCall.before
        /\ LastCall.returned = LastCall.this
        /\ ret = Returned(LastCall.this)

\* a falsy value was given to an object that already held arguments
C11_Witness ==
    /\ Len(chain) = 3
    /\ chain[1].method = "withInstance" /\ chain[1].value = <<"a">>
    /\ chain[2].method = "listUsers"
    /\ chain[3].method = "ssh" /\ chain[3].value = Null
    /\ commands[RefLagoon].args = <<s_dash_l, <<"a">>, s_list, s_all_users>>

\* the token sequence the documentation gives for one call
StatedTokens(c) ==
    CASE c.method = "withInstance" -> IF c.value \in FalsyValues THEN <<>> ELSE <<s_dash_l, c.value>>
      [] c.method = "withProject" -> IF c.value \in FalsyValues THEN <<>> ELSE <<s_dash_p, c.value>>
      [] c.method = "withEnvironment" -> IF c.value \in FalsyValues THEN <<>> ELSE <<s_dash_e, c.value>>
      [] c.method = "withJsonOutput" -> <<s_output_json>>
      [] c.method = "withForce" -> <<s_force>>
      [] c.method = "listConfigs" -> <<s_config, s_list>>
      [] c.method = "listProjects" -> <<s_list, s_projects>>
      [] c.method = "listEnvironments" -> <<s_list, s_environments>>
      [] c.method = "listUsers" -> <<s_list, s_all_users>>
      [] c.method = "deleteEnvironment" ->
            IF c.value \in FalsyValues THEN <<>> ELSE <<s_delete, s_environment, s_dd_environment, c.value>>
      [] c.method = "deployBranch" ->
            IF c.value \in FalsyValues THEN <<>> ELSE <<s_deploy, s_branch, s_dd_branch, c.value>>
      [] c.method = "login" -> <<s_login>>
      [] c.method = "ssh" -> IF c.value \in FalsyValues THEN <<>> ELSE <<s_ssh, s_dash_C, c.value>>
      [] OTHER -> <<>>

RECURSIVE StatedArgs(_, _)
StatedArgs(calls, this) ==
    IF calls = <<>> THEN <<>>
    ELSE (IF Head(calls).this = this THEN StatedTokens(Head(calls)) ELSE <<>>)
         \o StatedArgs(Tail(calls), this)

\* C12: after any chain of configurator calls on a LagoonCommand, getArgs()
\* is the concatenation, in call order, of the token sequences of the calls,
\* and getCommandArray() is 'lagoon' followed by those arguments.
C12_ArgsAreConcatenationInCallOrder ==
    /\ getArgs(commands[RefLagoon]) = StatedArgs(chain, RefLagoon)
    /\ getCommandArray(commands[RefLagoon]) = <<s_lagoon>> \o StatedArgs(chain, RefLagoon)
    /\ getBaseCommand(commands[RefLagoon]) = s_lagoon

\* withInstance('a').listEnvironments().withJsonOutput()
C12_Witness ==
    /\ Len(chain) = 3
    /\ \A i \in 1..3 : chain[i].this = RefLagoon
    /\ chain[1].method = "withInstance" /\ chain[1].value = <<"a">>
    /\ chain[2].method = "listEnvironments"
    /\ chain[3].method = "withJsonOutput"
    /\ getCommandArray(commands[RefLagoon])
          = <<s_lagoon, s_dash_l, <<"a">>, s_list, s_environments, s_output_json>>

IsPrefix(s, t) == Len(s) <= Len(t) /\ SubSeq(t, 1, Len(s)) = s

\* C13: the argument list an object held before a configurator call is a
\* prefix of the list it holds after the call, for LagoonCommand and for
\* GitCommand.
C13_ArgsOnlyGrow ==
    chain # <<>> => IsPrefix(LastCall.before, commands[LastCall.this].args)

\* C14: the display string of a command is its executable name and its
\* arguments joined by single spaces, also when it has no arguments.
C14_DisplayStringIsSpaceJoined ==
    \A r \in DOMAIN commands :
        toString(commands[r]) = join(<<commands[r].baseCommand>> \o commands[r].args, s_space)

-----------------------------------------------------------------------------
(* Properties of the helper functions, checked under SpecHelpers.          *)

toLowerCase(ch) == IF IsUpper(ch) THEN LowerLetters[IndexIn(UpperLetters, ch)] ELSE ch

IsString(v) == v # Null /\ v # Undefined

DigitString(s) == Len(s) >= 1 /\ \A i \in 1..Len(s) : s[i] \in Digits

\* name is, without regard to case, 'pr-' followed by one or more digits and nothing else
IsPrName(name) ==
    /\ IsString(name)
    /\ Len(name) >= 4
    /\ map(SubSeq(name, 1, 3), toLowerCase) = <<"p", "r", "-">>
    /\ DigitString(SubSeq(name, 4, Len(name)))

\* C15: extractPrNumber(name) returns the digits d when name is,
\* case-insensitively, exactly 'pr-' d; for every other name, '', null and
\* undefined included, it returns null; it never throws.
C15_ExtractPrNumberExactMatch ==
    (pc = "helperDone" /\ call.op = "extractPrNumber") =>
        /\ ret.status = "returned"
        /\ IsPrName(call.target) => ret.value = SubSeq(call.target, 4, Len(call.target))
        /\ ~IsPrName(call.target) => ret.value = Null

\* a PR name in mixed case gave its number
C15_Witness ==
    /\ pc = "helperDone"
    /\ call.op = "extractPrNumber"
    /\ call.target = <<"P", "r", "-", "1", "2">>
    /\ ret = Returned(<<"1", "2">>)

stripTrailingDotGit(s) ==
    IF endsWith(s, s_dot_git) THEN SubSeq(s, 1, Len(s) - Len(s_dot_git)) ELSE s

\* the result the documentation gives for a repository URL
StatedGithubUrl(url) ==
    IF ~IsString(url) \/ url = <<>> \/ ~includes(url, s_github_com) THEN Null
    ELSE IF startsWith(url, s_git_at_github)
    THEN s_https_github \o stripTrailingDotGit(SubSeq(url, Len(s_git_at_github) + 1, Len(url)))
    ELSE stripTrailingDotGit(url)

\* C16: gitUrlToGithubUrl returns null for null, undefined, '' and URLs
\* without 'github.com'; 'https://github.com/<path>' for
\* 'git@github.com:<path>.git'; any other URL with 'github.com' unchanged
\* but for a trailing '.git'.  Only a '.git' at the very end is removed.
C16_OnlyTrailingDotGitRemoved ==
    (pc = "helperDone" /\ call.op = "gitUrlToGithubUrl") =>
        ret = Returned(StatedGithubUrl(call.target))

-----------------------------------------------------------------------------
(* Properties of the outcomes of the API operations, checked under SpecApi. *)

\* the operation has completed after its one process completed
Settled == pc = "apiDone" /\ Len(exited) = 1

ProcessOutput == exited[1].result.stdout

ProcessFailed == Settled /\ ~exited[1].ok

ProcessSucceeded == Settled /\ exited[1].ok

MutatingOps == {"deleteEnvironment", "deployBranch"}

\* the response parses and its result is the success marker, character for character
SaysSuccess(out) == out.isJson /\ out.doc.result = <<"s","u","c","c","e","s","s">>

\* C17: deleteEnvironment returns true and deployBranch returns
\* {success: true, ...} only when the response of the CLI has result
\* 'success'; for every other response (another result, none, or no JSON) and
\* when the command fails the operation raises an error.
C17_SuccessOnlyOnSuccessMarker ==
    (Settled /\ call.op \in MutatingOps) =>
        IF ProcessSucceeded /\ SaysSuccess(ProcessOutput)
        THEN /\ ret.status = "returned"
             /\ call.op = "deleteEnvironment" => ret.value = TRUE
             /\ call.op = "deployBranch" => ret.value.success = TRUE
        ELSE ret.status = "thrown"

\* the CLI answered {"result":"Success"}: not the marker, so the deletion is an error
C17_Witness ==
    /\ ProcessSucceeded
    /\ call.op = "deleteEnvironment"
    /\ ProcessOutput.isJson
    /\ ProcessOutput.doc.result = <<"S","u","c","c","e","s","s">>
    /\ ret.status = "thrown"

JsonOps ==
    {"getLagoonInstances", "getProjects", "getProjectsWithDetails", "getEnvironments"} \cup MutatingOps

\* what the CLI wrote to stdout, as text
RawResponse(out) == IF out.isJson THEN JSONstringify(out.doc) ELSE out.text

\* the words by which an error message names the operation
OperationWords(op) ==
    CASE op = "getLagoonInstances" -> <<"L","a","g","o","o","n"," ","i","n","s","t","a","n","c","e","s">>
      [] op \in {"getProjects", "getProjectsWithDetails"} -> <<"p","r","o","j","e","c","t","s">>
      [] op = "getEnvironments" -> <<"e","n","v","i","r","o","n","m","e","n","t","s">>
      [] op = "deleteEnvironment" -> <<"d","e","l","e","t","e"," ","e","n","v","i","r","o","n","m","e","n","t">>
      [] op = "deployBranch" -> <<"d","e","p","l","o","y"," ","b","r","a","n","c","h">>
      [] OTHER -> <<>>

\* the response is no JSON, or a mutating operation's result is not the marker
UnusableResponse ==
    /\ ProcessSucceeded
    /\ call.op \in JsonOps
    /\ \/ ~ProcessOutput.isJson
       \/ call.op \in MutatingOps /\ ~SaysSuccess(ProcessOutput)

\* C18: for the JSON-returning operations a response that does not parse, or
\* whose result is not the success marker, is raised as an error whose message
\* names the operation and contains the raw response of the CLI.
C18_ErrorCarriesRawResponse ==
    UnusableResponse =>
        /\ ret.status = "thrown"
        /\ includes(ret.error.message, OperationWords(call.op))
        /\ includes(ret.error.message, RawResponse(ProcessOutput))

\* C19: when the command of an API operation fails, the operation raises an
\* error whose message contains the message of the original error.
C19_OriginalMessagePreserved ==
    ProcessFailed =>
        /\ ret.status = "thrown"
        /\ includes(ret.error.message, exited[1].error.message)

\* how a caller can tell one error from another without reading its text
ErrorKind(error) == error.kind

\* the errors the operation of call c raises when its command fails
ExecutionErrors(c) ==
    {Resume(c, Thrown(e)).error : e \in {k.error : k \in {k \in Completions(c) : ~k.ok}}}

\* the errors the operation of call c raises over what its command delivered
OutputErrors(c) ==
    {r.error : r \in {r \in {Resume(c, Returned(k.result)) : k \in {k \in Completions(c) : k.ok}} :
                         r.status = "thrown"}}

\* C20: a validation error raised before any process, an error of a command
\* that failed and an error over the output of a command that ran never reach
\* the caller as errors of the same kind.
C20_ErrorClassesDistinguishable ==
    (pc = "apiDone" /\ ret.status = "thrown") =>
        /\ spawnLog = <<>> =>
              \A e \in ExecutionErrors(call) \cup OutputErrors(call) :
                  ErrorKind(e) # ErrorKind(ret.error)
        /\ ProcessFailed =>
              \A e \in OutputErrors(call) : ErrorKind(e) # ErrorKind(ret.error)

\* ---------------------------------------------------------------------------
\* C21: one call of an API operation starts at most one external process, and
\* when that process fails the call settles at once with the error thrown to
\* its caller: no further process is started and none is left running.
C21_NoAutomaticRetry ==
    [][/\ Len(spawnLog') <= 1
       /\ (pc = "awaitProcess" /\ exited' # exited /\ ~exited'[Len(exited')].ok)
             => /\ pc' = "apiDone"
                /\ ret'.status = "thrown"
                /\ spawnLog' = spawnLog
                /\ running' = <<>>]_vars

\* a failed process has surfaced as an error after exactly one spawn
C21_Witness ==
    /\ ProcessFailed
    /\ ret.status = "thrown"
    /\ Len(spawnLog) = 1
    /\ running = <<>>

\* ---------------------------------------------------------------------------
\* C22: when the SSH key is configured for an instance that the readable local
\* configuration does not hold, the lookup error is reported in that very step:
\* no process is started, the configuration file is not written, the
\* configuration stays as it was, and configureSshKey returns false.
InstanceConfigured ==
    \E i \in 1..Len(lagoonConfig.lagoons) : lagoonConfig.lagoons[i].name = currentInstance

ChoosesConfigureSshKey ==
    /\ pc = "menu"
    /\ Len(sessionLog') > Len(sessionLog)
    /\ sessionLog'[Len(sessionLog) + 1] = MenuLog(s_configureUserSshKey)

LookupError ==
    Report("console.error",
           s_Error_configuring \o s_Lagoon_instance_quote \o ToStr(currentInstance)
             \o s_not_found_in_configuration)

C22_LookupFailsBeforeAnyEffect ==
    [][(ChoosesConfigureSshKey /\ lagoonConfig.exists /\ ~InstanceConfigured)
         => /\ pc' = "iterEnd"
            /\ reports' = Append(reports, LookupError)
            /\ spawnLog' = spawnLog
            /\ running' = running
            /\ Len(sessionLog') = Len(sessionLog) + 1
            /\ lagoonConfig' = lagoonConfig
            /\ ret' = Returned(FALSE)]_vars

\* the lookup has failed for an instance missing from a readable configuration
C22_Witness ==
    /\ pc = "iterEnd"
    /\ lagoonConfig.exists
    /\ ~InstanceConfigured
    /\ reports # <<>>
    /\ reports[Len(reports)] = LookupError
    /\ \A i \in 1..Len(spawnLog) : spawnLog[i].api = "execFile"

\* ---------------------------------------------------------------------------
\* What the documentation says of the two line parsers, stated on the lines
\* the command wrote rather than on the text.
Visible(line) == {i \in 1..Len(line) : line[i] \notin WhiteSpace}

IsBlankLine(line) == Visible(line) = {}

IsKeptLine(line) == ~IsBlankLine(line)

Least(S) == CHOOSE i \in S : \A j \in S : i <= j

Greatest(S) == CHOOSE i \in S : \A j \in S : i >= j

\* the text without the white space around it
Stripped(s) == IF Visible(s) = {} THEN <<>> ELSE SubSeq(s, Least(Visible(s)), Greatest(Visible(s)))

\* the first of the '|'-separated fields of a row
FirstField(line) ==
    LET bars == {i \in 1..Len(line) : line[i] = "|"} IN
    Stripped(IF bars = {} THEN line ELSE SubSeq(line, 1, Least(bars) - 1))

StatedUsers(lines) ==
    LET kept == SelectSeq(lines, IsKeptLine) IN
    IF Len(kept) <= 1 THEN <<>>
    ELSE [i \in 1..(Len(kept) - 1) |-> FirstField(kept[i + 1])]

\* C23: getUsers drops the blank lines of the output, discards the first
\* remaining line as the header, and returns for every further line, in the
\* order of the output, its first '|'-separated field with the white space
\* around it removed; an output with only a header, or with no line at all,
\* gives the empty list.
C23_UsersAreFirstColumnAfterHeader ==
    (ProcessSucceeded /\ call.op = "getUsers") =>
        /\ ret.status = "returned"
        /\ \A lines \in Texts(UserLines) :
              ProcessOutput.text = unlines(lines) => ret.value = StatedUsers(lines)

\* a blank line, a header and a row with padded fields gave one user
C23_Witness ==
    /\ ProcessSucceeded
    /\ call.op = "getUsers"
    /\ \E lines \in Texts(UserLines) :
          /\ ProcessOutput.text = unlines(lines)
          /\ Len(lines) >= 3
          /\ IsBlankLine(lines[1])
          /\ Len(SelectSeq(lines, IsKeptLine)) = 2
    /\ ret.status = "returned"
    /\ ret.value = << <<"u","s","e","r","2">> >>

\* the places of a line where 'refs/heads/' stands
Markers(line) ==
    {i \in 1..Len(line) :
        /\ i + Len(s_refs_heads) - 1 <= Len(line)
        /\ SubSeq(line, i, i + Len(s_refs_heads) - 1) = s_refs_heads}

\* the line holds 'refs/heads/' followed by at least one character
NamesBranch(line) == \E i \in Markers(line) : i + Len(s_refs_heads) <= Len(line)

\* everything after the first 'refs/heads/' up to the end of the line
BranchNameOf(line) == SubSeq(line, Least(Markers(line)) + Len(s_refs_heads), Len(line))

StatedBranches(lines) ==
    LET naming == SelectSeq(lines, NamesBranch) IN
    [i \in 1..Len(naming) |-> BranchNameOf(naming[i])]

Occurrences(list, x) == Cardinality({i \in 1..Len(list) : list[i] = x})

IsPermutationOf(a, b) ==
    /\ Len(a) = Len(b)
    /\ \A i \in 1..Len(b) : Occurrences(a, b[i]) = Occurrences(b, b[i])

\* main, master and develop in this order, then every other branch
StatedRank(branch) ==
    CASE branch = s_main -> 1
      [] branch = s_master -> 2
      [] branch = s_develop -> 3
      [] OTHER -> 4

\* the place of a letter in the alphabet, whatever its case; 0 for any other character
LetterRank(ch) == IndexIn(LowerLetters, toLowerCase(ch))

\* a stands at or before b in the dictionary
Alphabetical(a, b) ==
    \/ /\ Len(a) <= Len(b)
       /\ \A k \in 1..Len(a) : LetterRank(a[k]) = LetterRank(b[k])
    \/ \E k \in 1..Len(a) :
          /\ k <= Len(b)
          /\ \A h \in 1..(k - 1) : LetterRank(a[h]) = LetterRank(b[h])
          /\ LetterRank(a[k]) < LetterRank(b[k])

\* C25: the branches offered for deployment are a permutation of the branches
\* fetched; main, master and develop, where present, stand before every other
\* branch and in this order, and the other branches stand in ascending
\* alphabetical order.
C25_OfferedBranchesSorted ==
    (pc = "selectBranch") =>
        /\ IsPermutationOf(locals.choices, ret.value)
        /\ \A i, j \in 1..Len(locals.choices) :
              i < j => /\ StatedRank(locals.choices[i]) <= StatedRank(locals.choices[j])
                       /\ (StatedRank(locals.choices[i]) = 4 /\ StatedRank(locals.choices[j]) = 4)
                             => Alphabetical(locals.choices[i], locals.choices[j])

\* four branches fetched out of order are offered in the documented order
C25_Witness ==
    /\ pc = "selectBranch"
    /\ ret = Returned(<<s_master, s_fix_x, s_main, s_develop>>)
    /\ locals.choices = <<s_main, s_master, s_develop, s_fix_x>>

\* branches beside the priority ones, a capital among them, are offered alphabetically
C25_WitnessAlphabetical ==
    /\ pc = "selectBranch"
    /\ ret = Returned(<<s_Zeta, s_fix_x, s_main>>)
    /\ locals.choices = <<s_main, s_fix_x, s_Zeta>>

\* ---------------------------------------------------------------------------
\* the processes of this pass of the loop that are delete commands
IsDeleteSpawn(k) ==
    /\ spawnLog[k].api = "execFile"
    /\ \E a \in 1..Len(spawnLog[k].args) : spawnLog[k].args[a] = s_delete

\* the environment a delete command names: the argument after --environment
DeletedEnv(k) ==
    LET args == spawnLog[k].args
        at == CHOOSE a \in 1..(Len(args) - 1) : args[a] = s_dd_environment
    IN args[at + 1]

\* the k-th process of this pass listed the environments; `env` is among them
ListedBy(k, env) ==
    /\ k <= Len(exited)
    /\ spawnLog[k].api = "execFile"
    /\ \E a \in 1..(Len(spawnLog[k].args) - 1) :
          spawnLog[k].args[a] = s_list /\ spawnLog[k].args[a + 1] = s_environments
    /\ exited[k].ok
    /\ exited[k].result.stdout.isJson
    /\ \E d \in 1..Len(exited[k].result.stdout.doc.data) :
          exited[k].result.stdout.doc.data[d].name = env

\* C26: in the deletion flow a delete command is started only for an
\* environment that the listing returned, that is not deletion-protected, that
\* the user selected, and after the user answered yes to the confirmation;
\* hence with nothing eligible, with an empty selection or with a declined
\* confirmation no delete command is started.
C26_DeleteOnlyConfirmedSelection ==
    /\ \A k \in 1..Len(spawnLog) :
          IsDeleteSpawn(k) =>
              /\ locals.flow = "delete"
              /\ locals.confirmed
              /\ \E i \in 1..Len(locals.selected) : locals.selected[i] = DeletedEnv(k)
              /\ \E l \in 1..(k - 1) : ListedBy(l, DeletedEnv(k))
              /\ ~StatedDeletionProtected(DeletedEnv(k))
    /\ (locals.flow = "delete" /\ ~locals.confirmed) =>
          \A k \in 1..Len(spawnLog) : ~IsDeleteSpawn(k)

\* a confirmed delete of a selected environment beside a protected and an unselected one
C26_Witness ==
    /\ locals.flow = "delete"
    /\ locals.confirmed
    /\ locals.selected = <<s_pr_2>>
    /\ spawnLog # <<>>
    /\ IsDeleteSpawn(Len(spawnLog))
    /\ DeletedEnv(Len(spawnLog)) = s_pr_2
    /\ \E l \in 1..(Len(spawnLog) - 1) :
          ListedBy(l, s_pr_2) /\ ListedBy(l, s_pr_1) /\ ListedBy(l, s_production)

\* the confirmation was declined and nothing was deleted
C26_WitnessDeclined ==
    /\ pc = "pressEnter"
    /\ locals.flow = "delete"
    /\ locals.selected # <<>>
    /\ ~locals.confirmed
    /\ \A k \in 1..Len(spawnLog) : ~IsDeleteSpawn(k)

\* ---------------------------------------------------------------------------
\* the menu action this step chooses: the menu logs the selection first
Chooses(action) ==
    /\ pc = "menu"
    /\ Len(sessionLog') > Len(sessionLog)
    /\ sessionLog'[Len(sessionLog) + 1] = MenuLog(action)

\* C27: the main menu is shown only with an instance and a project selected;
\* changeProject clears the project, its details and the GitHub base URL and
\* leaves the instance; changeInstance clears all four; every other step of a
\* menu action, a failing one included, leaves instance and project as they are.
C27_SelectionFrame ==
    [][/\ pc' = "menu" => (Truthy(currentInstance') /\ Truthy(currentProject'))
       /\ Chooses(s_changeProject) =>
             /\ currentProject' = Null
             /\ currentProjectDetails' = NullDetails
             /\ githubBaseUrl' = Null
             /\ currentInstance' = currentInstance
       /\ Chooses(s_changeInstance) =>
             /\ currentInstance' = Null
             /\ currentProject' = Null
             /\ currentProjectDetails' = NullDetails
             /\ githubBaseUrl' = Null
       /\ (~Chooses(s_changeProject) /\ ~Chooses(s_changeInstance)
             /\ pc \notin {"selectInstance", "selectProject"}) =>
             /\ currentInstance' = currentInstance
             /\ currentProject' = currentProject]_vars

\* the project was changed: the instance stays, the project and what hangs on it are gone
C27_Witness ==
    /\ pc = "iterEnd"
    /\ sessionLog # <<>>
    /\ sessionLog[Len(sessionLog)] = Log(s_Change_Project, s_Project_selection_reset)
    /\ Truthy(currentInstance)
    /\ currentProject = Null
    /\ currentProjectDetails = NullDetails
    /\ githubBaseUrl = Null

\* a menu action failed and the selection is as it was
C27_WitnessFailure ==
    /\ pc = "caught"
    /\ sessionLog # <<>>
    /\ sessionLog[Len(sessionLog)] = MenuLog(s_listUsers)
    /\ Truthy(currentInstance)
    /\ Truthy(currentProject)

\* ---------------------------------------------------------------------------
\* C28: the GitHub base URL is null, or it is gitUrlToGithubUrl of the Git URL
\* of the project that is selected now; it is null whenever no project is
\* selected, so it is never the URL of a project selected before.
C28_GithubBaseUrlOfCurrentProject ==
    /\ ~Truthy(currentProject) => githubBaseUrl = Null
    /\ Truthy(currentProject) =>
          \/ githubBaseUrl = Null
          \/ /\ currentProjectDetails # NullDetails
             /\ currentProjectDetails.projectname = currentProject
             /\ githubBaseUrl = gitUrlToGithubUrl(currentProjectDetails.giturl)

\* a project without a Git URL is selected: the URL is null
C28_WitnessNoGitUrl ==
    /\ pc = "menu"
    /\ Truthy(currentProject)
    /\ currentProjectDetails # NullDetails
    /\ ~Truthy(currentProjectDetails.giturl)
    /\ githubBaseUrl = Null

\* a project hosted on GitHub is selected
C28_Witness ==
    /\ pc = "menu"
    /\ currentProject = s_test_project
    /\ githubBaseUrl = <<"h","t","t","p","s",":","/","/","g","i","t","h","u","b",".","c","o","m","/","o","r","g","/","r","e","p","o">>

\* ---------------------------------------------------------------------------
\* an operation has settled with an error and the flow that awaited it resumes
ErrorArrives == pc = call.cont /\ ret.status = "thrown"

\* the operations the flows await outside any try block of their own
PropagatingOps == {"getLagoonInstances", "getProjectsWithDetails", "getEnvironments", "getUsers"}

\* the session ends only by the user's choice, and after the continue prompt
\* the loop goes back to the selection or the menu
EndsOnlyByChoice ==
    /\ pc' = "end" => (pc = "loopTop" /\ exit)
    /\ exit' # exit => (exit' /\ (Chooses(s_exit) \/ pc = "caught"))
    /\ pc = "caught" => pc' = "iterEnd"
    /\ pc = "iterEnd" => pc' = "loopTop"
    /\ (pc = "loopTop" /\ ~exit) =>
          \/ pc' = "menu"
          \/ pc' = "awaitProcess" /\ call'.op \in {"getLagoonInstances", "getProjectsWithDetails"}

C29_WitnessHandled ==
    /\ pc = "pressEnter"
    /\ call.op = "deployBranch"
    /\ ret.status = "thrown"
    /\ ~exit
    /\ reports[Len(reports)].via = "spinner.fail"

\* ---------------------------------------------------------------------------
\* what a step of configureSshKey does, read off the logs and the spawn history
WriteAttempted ==
    \E k \in (Len(sessionLog) + 1)..Len(sessionLog') : sessionLog'[k].action = s_Write_Config

WriteSucceeded ==
    \E k \in (Len(sessionLog) + 1)..Len(sessionLog') :
        sessionLog'[k].action = s_Write_Config /\ sessionLog'[k].fn = "logAction"

RefreshStarted ==
    /\ Len(spawnLog') = Len(spawnLog) + 1
    /\ spawnLog'[Len(spawnLog')].api = "exec"

\* the function returns without a word of error: no key exists, or the user cancelled
ReturnsSilently ==
    /\ \/ ChoosesConfigureSshKey
       \/ pc = "selectSshKey"
    /\ pc' = "iterEnd"
    /\ reports' = reports

\* C30: configureSshKey writes the configuration file only after the instance
\* was found, at least one key was listed and the user selected a key, not
\* Cancel; the token refresh is started only after that write succeeded; with
\* no key or with Cancel nothing is written, nothing is started and false is
\* returned; once the write has succeeded the function returns true whether
\* the token refresh succeeds or fails.
C30_WriteThenRefresh ==
    [][/\ WriteAttempted =>
             /\ pc = "selectSshKey"
             /\ InstanceConfigured
             /\ \E i \in 1..Len(locals.choices) : Truthy(locals.choices[i])
       /\ (WriteSucceeded \/ lagoonConfig' # lagoonConfig) =>
             /\ WriteAttempted
             /\ \E i \in 1..Len(locals.choices) :
                   /\ Truthy(locals.choices[i])
                   /\ locals'.selected = <<locals.choices[i]>>
                   /\ \E l \in 1..Len(lagoonConfig'.lagoons) :
                         /\ lagoonConfig'.lagoons[l].name = currentInstance
                         /\ lagoonConfig'.lagoons[l].sshkey = locals.choices[i]
       /\ RefreshStarted => WriteSucceeded
       /\ ReturnsSilently =>
             /\ ~WriteAttempted
             /\ spawnLog' = spawnLog
             /\ running' = running
             /\ lagoonConfig' = lagoonConfig
             /\ ret' = Returned(FALSE)
       /\ pc = "tokenRefreshed" =>
             /\ pc' = "iterEnd"
             /\ ret' = Returned(TRUE)]_vars

\* the key was written, the token refresh failed, and true was returned
C30_Witness ==
    /\ pc = "iterEnd"
    /\ call.op = "refreshLagoonToken"
    /\ exited # <<>>
    /\ ~exited[Len(exited)].ok
    /\ spawnLog[Len(spawnLog)].api = "exec"
    /\ \E l \in 1..Len(lagoonConfig.lagoons) :
          /\ lagoonConfig.lagoons[l].name = currentInstance
          /\ lagoonConfig.lagoons[l].sshkey = locals.selected[1]
    /\ ret = Returned(TRUE)

\* the user cancelled: nothing written, nothing started, false returned
C30_WitnessCancelled ==
    /\ pc = "iterEnd"
    /\ locals.flow = "configureSshKey"
    /\ locals.selected = <<>>
    /\ reports = <<>>
    /\ \A k \in 1..Len(spawnLog) : spawnLog[k].api = "execFile"
    /\ ret = Returned(FALSE)

====
